---- MODULE Spec2Model ----
(***************************************************************************)
(* Status-transition and SLE analytics of the aging-WIP chart generator    *)
(* (cli/get-jira-issues.js and its browser twin src/jiraClient.js).        *)
(*                                                                         *)
(* Time is counted in hours.  A timestamp is an integer number of hours    *)
(* since midnight UTC of day 0; the code's 1000*60*60*24 ms is DayLen.     *)
(* JavaScript null/undefined results are the empty sequence Null, a        *)
(* present timestamp t is <<t>>.                                           *)
(***************************************************************************)
EXTENDS Integers, Sequences, FiniteSets, TLC

VARIABLES
    statuses,           \* status metadata as returned by getStatusesByIds
    issue,              \* the live issue being transformed
    referenceDate,      \* the reference date (hours; the CLI gives midnight UTC)
    hostZone,           \* time zone of the host that runs the program
    statusCategoryMap,  \* result of buildStatusCategoryMap
    firstStableExit,    \* calculateAgeMetrics: result of the stable-exit scan
    mostRecentTransition, \* calculateAgeMetrics: result of the current-status scan
    ageMetrics,         \* result of calculateAgeMetrics
    sleIssues,          \* the historical issues fetched with --sle-jql
    sleWindow,          \* the --sle-window string, a sequence of characters
    percentiles,        \* the --percentiles list
    transitionsByStatusId, \* result of extractStatusTransitions
    window,             \* result of parseWindow
    filteredByStatusId, \* calculateSLEsForStatuses: the filtered records per status
    slesByStatusId,     \* result of calculateSLEsForStatuses
    liveIssues,         \* buildOutput: the live issues, in response order
    columnsOrder,       \* buildOutput: the --columns-order value
    columns,            \* buildOutput: the columns of the output
    pctSample,          \* calculatePercentile: sortedValues
    pctRank,            \* calculatePercentile: percentile
    pctResult,          \* calculatePercentile: the value returned
    activeIssues,       \* getAllIssues: the issues whose changelog is enriched
    batchStart,         \* getAllIssues: the loop variable i of the batch loop
    fetchState,         \* getAllIssues: state of each issue's enrichment fetch
    now,                \* the clock, in milliseconds
    timers,             \* sleep: the time at which each fetch's timer fires
    dispatchedAt,       \* request: the time at which makeRequest was called
    allIssues,          \* getAllIssues: the issues collected, in response order
    matching,           \* the number of issues the tracker's search matches
    startAt,            \* getAllIssues: startAt of the paging loop
    total,              \* getAllIssues: total of the paging loop
    requests,           \* the number of search requests sent, modulo 2
    percentilesArg,     \* parseCLIArgs: the pieces of the --percentiles value
    entryPoint,         \* the entry point that serves the request
    statusIds,          \* the status ids passed to getStatusesByIds
    pc                  \* position in the pipeline

liveVars == <<issue, firstStableExit, mostRecentTransition, ageMetrics>>

sleVars == <<sleIssues, sleWindow, percentiles, transitionsByStatusId, window,
             filteredByStatusId, slesByStatusId>>

outVars == <<liveIssues, columnsOrder, columns>>

pctVars == <<pctSample, pctRank, pctResult>>

fetchVars == <<activeIssues, batchStart, fetchState>>

clockVars == <<now, timers, dispatchedAt, allIssues>>

pageVars == <<matching, startAt, total, requests>>

argVars == <<percentilesArg, entryPoint, statusIds>>

extVars == <<clockVars, pageVars, argVars>>

restVars == <<outVars, pctVars, fetchVars, extVars>>

vars == <<statuses, referenceDate, hostZone, statusCategoryMap, liveVars, sleVars,
          restVars, pc>>

----------------------------------------------------------------------------
(* Bounds of the model *)

MaxHist == 3        \* histories in one changelog
MaxDay == 1         \* history timestamps fall on days 0..MaxDay
MaxStatuses == 2    \* status definitions in one metadata response
MaxSleIssues == 2   \* historical issues returned for --sle-jql
MaxWindow == 2      \* largest number written in a --sle-window string

DayLen == 24        \* hours per day: 1000 * 60 * 60 * 24 ms in the code

Hours == {9, 15}    \* times of day at which histories are recorded

Times == {d * DayLen + h : d \in 0..MaxDay, h \in Hours}

RefDates == {d * DayLen : d \in 0..(MaxDay + 1)}

StatusIds == {"1", "2", "3"}

Null == <<>>
Some(t) == <<t>>

Undefined == "js:undefined"

----------------------------------------------------------------------------
(* The host's time zone.  "UTC" has offset 0; "DST" is a zone whose clocks  *)
(* are two hours ahead of UTC until 03:00 UTC of day 1 and one hour ahead   *)
(* afterwards (summer time ending).                                         *)

HostZones == {"UTC", "DST"}

UtcOffset(zone, t) ==
    IF zone = "UTC" THEN 0
    ELSE IF t < DayLen + 3 THEN 2 ELSE 1

\* Date.prototype.toDateString / getDate: the local calendar day of an instant
LocalDay(zone, t) == (t + UtcOffset(zone, t)) \div DayLen

----------------------------------------------------------------------------
(* Status categories *)

NoCategory == [shape |-> "none", key |-> ""]
Str(tok) == [shape |-> "string", key |-> tok]
Obj(k) == [shape |-> "object", key |-> k]

StatusName(id) ==
    CASE id = "1" -> "To Do"
      [] id = "2" -> "In Progress"
      [] id = "3" -> "Review"
      [] OTHER -> "Other"

StatusDef(id, cat) == [id |-> id, name |-> StatusName(id), statusCategory |-> cat]

\* String.prototype.toLowerCase on the category tokens of the model
toLowerCase(s) ==
    CASE s = "TODO" -> "todo"
      [] s = "IN_PROGRESS" -> "in_progress"
      [] s = "DONE" -> "done"
      [] s = "UNDEFINED" -> "undefined"
      [] OTHER -> s

\* the literal categoryStringToKey; Undefined when the token is no property of it
categoryStringToKey(s) ==
    CASE s = "TODO" -> "new"
      [] s = "IN_PROGRESS" -> "indeterminate"
      [] s = "DONE" -> "done"
      [] OTHER -> Undefined

EmptyMap == [k \in {} |-> ""]

MapSet(map, k, v) == [x \in (DOMAIN map) \cup {k} |-> IF x = k THEN v ELSE map[x]]

MapGet(map, k) == IF k \in DOMAIN map THEN map[k] ELSE Undefined

\* CategoryKeyOf defaulting a missing category to Backlog instead of omitting it
CategoryKeyOfDefaulting(status) ==
    LET c == status.statusCategory IN
    IF c.shape = "none" \/ c.key = "" THEN "new"
    ELSE IF c.shape = "string"
         THEN (IF categoryStringToKey(c.key) # Undefined
               THEN categoryStringToKey(c.key)
               ELSE toLowerCase(c.key))
         ELSE c.key

\* the category key buildStatusCategoryMap derives for one status
\* ("" stands for every falsy value)
CategoryKeyOf(status) ==
    LET c == status.statusCategory IN
    IF c.shape = "none" \/ (c.shape = "string" /\ c.key = "") THEN ""
    ELSE IF c.shape = "string"
         THEN (IF categoryStringToKey(c.key) # Undefined
               THEN categoryStringToKey(c.key)
               ELSE toLowerCase(c.key))
         ELSE c.key

RECURSIVE BuildFrom(_, _, _)
BuildFrom(list, i, map) ==
    IF i > Len(list) THEN map
    ELSE LET categoryKey == CategoryKeyOf(list[i]) IN
         IF categoryKey # ""
         THEN BuildFrom(list, i + 1,
                        MapSet(MapSet(map, list[i].id, categoryKey),
                               list[i].name, categoryKey))
         ELSE BuildFrom(list, i + 1, map)

buildStatusCategoryMap(list) == BuildFrom(list, 1, EmptyMap)

----------------------------------------------------------------------------
(* Changelog scans *)

Reverse(s) == [i \in 1..Len(s) |-> s[Len(s) + 1 - i]]

\* history.items.find(item => item.field === 'status'): Null or <<item>>
RECURSIVE FindFrom(_, _)
FindFrom(items, i) ==
    IF i > Len(items) THEN Null
    ELSE IF items[i].field = "status" THEN <<items[i]>>
    ELSE FindFrom(items, i + 1)

FindStatusChange(history) == FindFrom(history.items, 1)

\* the inner loop of findFirstStableExitFromTodo, from index j
RECURSIVE SameDayReturnToTodo(_, _, _, _, _)
SameDayReturnToTodo(histories, i, j, map, zone) ==
    IF j > Len(histories) THEN FALSE
    ELSE LET nextStatusChange == FindStatusChange(histories[j]) IN
         IF nextStatusChange = Null
         THEN SameDayReturnToTodo(histories, i, j + 1, map, zone)
         ELSE IF LocalDay(zone, histories[j].created) = LocalDay(zone, histories[i].created)
              THEN (IF MapGet(map, nextStatusChange[1].to) = "new"
                    THEN TRUE
                    ELSE SameDayReturnToTodo(histories, i, j + 1, map, zone))
              ELSE FALSE

\* the outer loop of findFirstStableExitFromTodo, from index i
RECURSIVE StableExitFrom(_, _, _, _)
StableExitFrom(histories, i, map, zone) ==
    IF i > Len(histories) THEN Null
    ELSE LET statusChange == FindStatusChange(histories[i]) IN
         IF /\ statusChange # Null
            /\ MapGet(map, statusChange[1].from) = "new"
            /\ MapGet(map, statusChange[1].to) # "new"
            /\ ~SameDayReturnToTodo(histories, i, i + 1, map, zone)
         THEN Some(histories[i].created)
         ELSE StableExitFrom(histories, i + 1, map, zone)

\* the order in which findFirstStableExitFromTodo walks the histories
ScanOrder(histories) == Reverse(histories)

findFirstStableExitFromTodo(changelog, map, zone) ==
    IF changelog = Null THEN Null
    ELSE StableExitFrom(ScanOrder(changelog[1].histories), 1, map, zone)

RECURSIVE MostRecentFrom(_, _, _)
MostRecentFrom(histories, i, currentStatusId) ==
    IF i > Len(histories) THEN Null
    ELSE LET statusChange == FindStatusChange(histories[i]) IN
         IF statusChange # Null /\ statusChange[1].to = currentStatusId
         THEN Some(histories[i].created)
         ELSE MostRecentFrom(histories, i + 1, currentStatusId)

findMostRecentTransitionToStatus(changelog, currentStatusId) ==
    IF changelog = Null THEN Null
    ELSE MostRecentFrom(changelog[1].histories, 1, currentStatusId)

----------------------------------------------------------------------------
(* Ages *)

Max(a, b) == IF a >= b THEN a ELSE b

\* calculateAge without the Math.max(1, ...) clamp
calculateAgeNoClamp(createdDate, reference) ==
    ((reference - createdDate) \div DayLen) + 1

calculateAge(createdDate, reference) ==
    LET diffMs == reference - createdDate
        diffDays == diffMs \div DayLen
    IN  Max(1, diffDays + 1)

formatDate(zone, t) == LocalDay(zone, t)

\* a || b on optional timestamps
OrElse(opt, fallback) == IF opt # Null THEN opt[1] ELSE fallback

\* calculateAgeMetrics with the two anchors exchanged
calculateAgeMetricsSwapped(iss, reference, map, zone) ==
    LET stableExit == findFirstStableExitFromTodo(iss.changelog, map, zone)
        recentTransition == findMostRecentTransitionToStatus(iss.changelog, iss.status.id)
        ageStartDate == OrElse(recentTransition, iss.created)
        currentStateStartDate == OrElse(stableExit, iss.created)
    IN  [age |-> calculateAge(ageStartDate, reference),
         age_in_current_state |-> calculateAge(currentStateStartDate, reference),
         start_date |-> formatDate(zone, ageStartDate),
         current_state_start_date |-> formatDate(zone, currentStateStartDate)]

calculateAgeMetrics(iss, reference, map, zone) ==
    LET stableExit == findFirstStableExitFromTodo(iss.changelog, map, zone)
        recentTransition == findMostRecentTransitionToStatus(iss.changelog, iss.status.id)
        ageStartDate == OrElse(stableExit, iss.created)
        currentStateStartDate == OrElse(recentTransition, iss.created)
    IN  [age |-> calculateAge(ageStartDate, reference),
         age_in_current_state |-> calculateAge(currentStateStartDate, reference),
         start_date |-> formatDate(zone, ageStartDate),
         current_state_start_date |-> formatDate(zone, currentStateStartDate)]

NoMetrics == [age |-> 0, age_in_current_state |-> 0,
              start_date |-> 0, current_state_start_date |-> 0]

----------------------------------------------------------------------------
(* Inputs: issues as the tracker records them *)

\* the status an issue is created in
InitialStatus == "1"

\* the statuses an issue is in after each of its n histories; a history that
\* leaves the status alone is a change of another field
StatusPaths(n) == {p \in [0..n -> StatusIds] : p[0] = InitialStatus}

TimeSeqs(n) == {ts \in [1..n -> Times] : \A i \in 1..(n - 1) : ts[i] <= ts[i + 1]}

HistoryOf(p, ts, i) ==
    [created |-> ts[i],
     items |-> IF p[i - 1] = p[i]
               THEN <<[field |-> "assignee", from |-> "a", to |-> "b"]>>
               ELSE <<[field |-> "status", from |-> p[i - 1], to |-> p[i]]>>]

\* oldest first
Chronological(p, ts, n) == [i \in 1..n |-> HistoryOf(p, ts, i)]

Deliveries == {"newest-first", "oldest-first"}

Delivered(order, chron) == IF order = "newest-first" THEN Reverse(chron) ELSE chron

\* issues are created at the earliest time of the model
CreatedAt == CHOOSE t \in Times : \A u \in Times : t <= u

\* delivery records the order the tracker delivered the histories in; the
\* program never reads it
IssueWith(p, ts, n, order) ==
    [key |-> "K-1",
     delivery |-> order,
     created |-> CreatedAt,
     status |-> [id |-> p[n], name |-> StatusName(p[n])],
     changelog |-> <<[histories |-> Delivered(order, Chronological(p, ts, n))]>>]

Issues ==
    {[key |-> "K-1", delivery |-> "newest-first", created |-> CreatedAt,
      status |-> [id |-> InitialStatus, name |-> StatusName(InitialStatus)],
      changelog |-> Null]}
    \cup
    UNION {{IssueWith(p, ts, n, order) : p \in StatusPaths(n), ts \in TimeSeqs(n),
                                          order \in Deliveries} : n \in 0..MaxHist}

\* status metadata of the two API shapes
StatusScenarios ==
    { <<StatusDef("1", Str("TODO")), StatusDef("2", Str("IN_PROGRESS")),
        StatusDef("3", NoCategory)>>,
      <<StatusDef("1", Obj("new")), StatusDef("2", Obj("new")),
        StatusDef("3", Obj("indeterminate"))>> }

----------------------------------------------------------------------------
(* Dates as strings.  A date string YYYY-MM-DD is the triple                *)
(* <<year, month, day>>; fixed-width digit strings compare as strings the   *)
(* way the triples compare lexicographically.  Day 0 of the model is        *)
(* 2024-02-01, the days before it are the last days of January.             *)

DateOfDay(k) == IF k >= 0 THEN <<2024, 2, k + 1>> ELSE <<2024, 1, 32 + k>>

\* a >= b on date strings
StrGeq(a, b) ==
    \/ a[1] > b[1]
    \/ a[1] = b[1] /\ a[2] > b[2]
    \/ a[1] = b[1] /\ a[2] = b[2] /\ a[3] >= b[3]

\* b.exitDate.localeCompare(a.exitDate) > 0
StrGreater(a, b) == StrGeq(a, b) /\ a # b

\* timestamp.split('T')[0]: the date as written in the timestamp; the tracker
\* writes its timestamps in UTC
DatePart(t) == DateOfDay(t \div DayLen)

\* new Date(instant).toISOString().split('T')[0]
IsoDate(t) == DateOfDay(t \div DayLen)

\* the instant at which the host's clock shows wall-clock time w
LocalToUtc(zone, w) ==
    IF zone = "UTC" THEN w
    ELSE IF w - 2 < DayLen + 3 THEN w - 2 ELSE w - 1

----------------------------------------------------------------------------
(* parseWindow *)

Digits == <<"0", "1", "2", "3", "4", "5", "6", "7", "8", "9">>

IsDigit(ch) == \E i \in 1..Len(Digits) : Digits[i] = ch

DigitValue(ch) == (CHOOSE i \in 1..Len(Digits) : Digits[i] = ch) - 1

AllDigits(str) == \A i \in 1..Len(str) : IsDigit(str[i])

\* the Number NaN: a value that no numeral of the model denotes
NaN == -1000000

\* the value of a string of decimal digits
RECURSIVE DigitsValue(_)
DigitsValue(str) ==
    IF Len(str) = 0 THEN 0
    ELSE DigitsValue(SubSeq(str, 1, Len(str) - 1)) * 10 + DigitValue(str[Len(str)])

RECURSIVE DigitPrefix(_)
DigitPrefix(str) ==
    IF Len(str) = 0 \/ ~IsDigit(str[1]) THEN <<>>
    ELSE <<str[1]>> \o DigitPrefix(Tail(str))

RECURSIVE SkipSpaces(_)
SkipSpaces(str) ==
    IF Len(str) > 0 /\ str[1] = " " THEN SkipSpaces(Tail(str)) ELSE str

\* parseInt: leading white space is skipped, a sign is read, then the longest
\* prefix of digits; NaN if there is no digit
parseInt(str) ==
    LET s == SkipSpaces(str)
        signed == Len(s) > 0 /\ s[1] \in {"-", "+"}
        digits == DigitPrefix(IF signed THEN Tail(s) ELSE s)
    IN  IF Len(digits) = 0 THEN NaN
        ELSE IF signed /\ s[1] = "-" THEN 0 - DigitsValue(digits)
        ELSE DigitsValue(digits)

\* /^(\d+)d$/i
DaysMatch(str) ==
    /\ Len(str) >= 2
    /\ str[Len(str)] \in {"d", "D"}
    /\ AllDigits(SubSeq(str, 1, Len(str) - 1))

\* str without its hyphens at positions 5 and 8 (of the hyphenated form)
DateDigits(str) ==
    LET afterYear == IF Len(str) >= 5 /\ str[5] = "-"
                     THEN SubSeq(str, 1, 4) \o SubSeq(str, 6, Len(str))
                     ELSE str
    IN  IF Len(afterYear) >= 7 /\ afterYear[7] = "-"
        THEN SubSeq(afterYear, 1, 6) \o SubSeq(afterYear, 8, Len(afterYear))
        ELSE afterYear

\* /^(\d{4})-?(\d{2})-?(\d{2})$/
DateMatch(str) ==
    /\ Len(str) >= 4 /\ AllDigits(SubSeq(str, 1, 4))
    /\ Len(DateDigits(str)) = 8
    /\ AllDigits(DateDigits(str))

\* /^(\d+)$/
CountMatch(str) == Len(str) >= 1 /\ AllDigits(str)

NoWindow == [type |-> "none", date |-> <<0, 0, 0>>, count |-> 0]

WindowError == [type |-> "error", date |-> <<0, 0, 0>>, count |-> 0]

\* the "Xd" branch: new Date(referenceDate), setDate(getDate() - days) on the
\* host's clock, toISOString().split('T')[0]
CutoffDate(days, reference, zone) ==
    LET wall == reference + UtcOffset(zone, reference)
        moved == wall - days * DayLen
    IN  IsoDate(LocalToUtc(zone, moved))

\* parseWindow testing the integer pattern before the date pattern
parseWindowCountFirst(windowStr, reference, zone) ==
    IF DaysMatch(windowStr)
    THEN [type |-> "date",
          date |-> CutoffDate(parseInt(SubSeq(windowStr, 1, Len(windowStr) - 1)),
                              reference, zone),
          count |-> 0]
    ELSE IF CountMatch(windowStr)
    THEN [type |-> "count", date |-> <<0, 0, 0>>, count |-> parseInt(windowStr)]
    ELSE IF DateMatch(windowStr)
    THEN LET d == DateDigits(windowStr) IN
         [type |-> "date",
          date |-> <<parseInt(SubSeq(d, 1, 4)), parseInt(SubSeq(d, 5, 6)),
                     parseInt(SubSeq(d, 7, 8))>>,
          count |-> 0]
    ELSE WindowError

parseWindow(windowStr, reference, zone) ==
    IF DaysMatch(windowStr)
    THEN [type |-> "date",
          date |-> CutoffDate(parseInt(SubSeq(windowStr, 1, Len(windowStr) - 1)),
                              reference, zone),
          count |-> 0]
    ELSE IF DateMatch(windowStr)
    THEN LET d == DateDigits(windowStr) IN
         [type |-> "date",
          date |-> <<parseInt(SubSeq(d, 1, 4)), parseInt(SubSeq(d, 5, 6)),
                     parseInt(SubSeq(d, 7, 8))>>,
          count |-> 0]
    ELSE IF CountMatch(windowStr)
    THEN [type |-> "count", date |-> <<0, 0, 0>>, count |-> parseInt(windowStr)]
    ELSE WindowError

----------------------------------------------------------------------------
(* extractStatusTransitions *)

MapPush(map, k, rec) ==
    IF k \in DOMAIN map THEN [map EXCEPT ![k] = Append(@, rec)]
    ELSE MapSet(map, k, <<rec>>)

\* the histories.forEach of one issue, from index i, tracking currentStatusId
\* ("" while nothing is tracked)
RECURSIVE WalkFrom(_, _, _, _, _, _)
WalkFrom(histories, i, currentStatusId, baseDate, issueKey, acc) ==
    IF i > Len(histories) THEN acc
    ELSE LET statusChange == FindStatusChange(histories[i]) IN
         IF statusChange = Null
         THEN WalkFrom(histories, i + 1, currentStatusId, baseDate, issueKey, acc)
         ELSE LET exitDate == histories[i].created
                  overallAgeDays == (exitDate - baseDate) \div DayLen
                  rec == [issueKey |-> issueKey,
                          exitDate |-> DatePart(histories[i].created),
                          overallAge |-> Max(1, overallAgeDays + 1)]
              IN  WalkFrom(histories, i + 1, statusChange[1].to, baseDate, issueKey,
                           IF currentStatusId # "" /\ statusChange[1].from = currentStatusId
                           THEN MapPush(acc, currentStatusId, rec)
                           ELSE acc)

\* the body of issues.forEach for one issue
ExtractIssue(iss, map, zone, acc) ==
    IF iss.changelog = Null THEN acc
    ELSE LET firstExitFromTodo == findFirstStableExitFromTodo(iss.changelog, map, zone)
             baseDate == OrElse(firstExitFromTodo, iss.created)
         IN  WalkFrom(Reverse(iss.changelog[1].histories), 1, "", baseDate, iss.key, acc)

RECURSIVE ExtractFrom(_, _, _, _, _)
ExtractFrom(issues, i, map, zone, acc) ==
    IF i > Len(issues) THEN acc
    ELSE ExtractFrom(issues, i + 1, map, zone, ExtractIssue(issues[i], map, zone, acc))

EmptyTransitions == [k \in {} |-> <<>>]

extractStatusTransitions(issues, map, zone) ==
    ExtractFrom(issues, 1, map, zone, EmptyTransitions)

----------------------------------------------------------------------------
(* filterTransitionsByWindow, calculatePercentile, calculateSLEsForStatuses *)

\* stable insertion of rec into a list sorted by exitDate descending
RECURSIVE InsertDesc(_, _)
InsertDesc(sorted, rec) ==
    IF Len(sorted) = 0 THEN <<rec>>
    ELSE IF StrGreater(rec.exitDate, sorted[Len(sorted)].exitDate)
         THEN Append(InsertDesc(SubSeq(sorted, 1, Len(sorted) - 1), rec), sorted[Len(sorted)])
         ELSE Append(sorted, rec)

\* [...transitions].sort((a, b) => b.exitDate.localeCompare(a.exitDate)), stable
RECURSIVE SortByExitDateDesc(_)
SortByExitDateDesc(transitions) ==
    IF Len(transitions) = 0 THEN <<>>
    ELSE InsertDesc(SortByExitDateDesc(SubSeq(transitions, 1, Len(transitions) - 1)),
                    transitions[Len(transitions)])

Min(a, b) == IF a <= b THEN a ELSE b

\* filterTransitionsByWindow taking the first N records as stored, unsorted
filterTransitionsFirstN(transitions, w) ==
    IF w.type = "date"
    THEN LET Keep(t) == StrGeq(t.exitDate, w.date) IN SelectSeq(transitions, Keep)
    ELSE IF w.type = "count"
    THEN SubSeq(transitions, 1, Min(w.count, Len(transitions)))
    ELSE transitions

filterTransitionsByWindow(transitions, w) ==
    IF w.type = "date"
    THEN LET Keep(t) == StrGeq(t.exitDate, w.date) IN SelectSeq(transitions, Keep)
    ELSE IF w.type = "count"
    THEN SubSeq(SortByExitDateDesc(transitions), 1, Min(w.count, Len(transitions)))
    ELSE transitions

\* stable insertion of a number into an ascending list
RECURSIVE InsertAsc(_, _)
InsertAsc(sorted, x) ==
    IF Len(sorted) = 0 THEN <<x>>
    ELSE IF x < sorted[Len(sorted)]
         THEN Append(InsertAsc(SubSeq(sorted, 1, Len(sorted) - 1), x), sorted[Len(sorted)])
         ELSE Append(sorted, x)

RECURSIVE SortAsc(_)
SortAsc(values) ==
    IF Len(values) = 0 THEN <<>>
    ELSE InsertAsc(SortAsc(SubSeq(values, 1, Len(values) - 1)), values[Len(values)])

\* JavaScript Numbers.  The values calculatePercentile works with are
\* non-negative doubles that are multiples of 2^-60 and smaller than 2^20;
\* such a value v is the tuple <<l0, l1, l2, whole>> of base-2^20 limbs of
\* v * 2^60: `whole` is its integer part, l2, l1, l0 its fraction.  Every
\* operation rounds its exact result to a 53-bit significand, to nearest,
\* ties to even, as the double operation it stands for.
SignificandBits == 53

LimbBits == 20

Limb == 2 ^ LimbBits

Zero == <<0, 0, 0, 0>>

NumOf(n) == <<0, 0, 0, n>>

\* carries (or borrows) of limb sums propagated upwards
Carry(c) ==
    LET t1 == c[2] + (c[1] \div Limb)
        t2 == c[3] + (t1 \div Limb)
    IN  <<c[1] % Limb, t1 % Limb, t2 % Limb, c[4] + (t2 \div Limb)>>

ExactSum(a, b) == Carry([i \in 1..4 |-> a[i] + b[i]])

\* a - b for a >= b
ExactDiff(a, b) == Carry([i \in 1..4 |-> a[i] - b[i]])

\* a * k for a small natural k
ExactTimes(a, k) == Carry([i \in 1..4 |-> a[i] * k])

RECURSIVE BitLength(_)
BitLength(x) == IF x = 0 THEN 0 ELSE 1 + BitLength(x \div 2)

\* the number of bits of v * 2^60
BitCount(a) ==
    IF a[4] # 0 THEN 3 * LimbBits + BitLength(a[4])
    ELSE IF a[3] # 0 THEN 2 * LimbBits + BitLength(a[3])
    ELSE IF a[2] # 0 THEN LimbBits + BitLength(a[2])
    ELSE BitLength(a[1])

\* bit i (from 0) of v * 2^60
BitAt(a, i) == (a[(i \div LimbBits) + 1] \div (2 ^ (i % LimbBits))) % 2

\* the d lowest bits of v * 2^60
LowPart(a, d) ==
    [i \in 1..4 |-> IF i - 1 < d \div LimbBits THEN a[i]
                    ELSE IF i - 1 = d \div LimbBits THEN a[i] % (2 ^ (d % LimbBits))
                    ELSE 0]

Pow2(d) == [i \in 1..4 |-> IF i - 1 = d \div LimbBits THEN 2 ^ (d % LimbBits) ELSE 0]

\* the double nearest to the exact value a (plus a fraction of its last bit
\* when `sticky`), ties to even
RoundToDouble(a, sticky) ==
    LET d == BitCount(a) - SignificandBits IN
    IF d <= 0 THEN a
    ELSE LET trunc == ExactDiff(a, LowPart(a, d))
             guard == BitAt(a, d - 1)
             rest == LowPart(a, d - 1) # Zero \/ sticky
         IN  IF guard = 1 /\ (rest \/ BitAt(a, d) = 1)
             THEN ExactSum(trunc, Pow2(d))
             ELSE trunc

\* a + b, a - b, a * k, n / k as the double operations
NumPlus(a, b) == RoundToDouble(ExactSum(a, b), FALSE)

NumMinus(a, b) == RoundToDouble(ExactDiff(a, b), FALSE)

NumTimes(a, k) == RoundToDouble(ExactTimes(a, k), FALSE)

NumDivide(n, k) ==
    LET r3 == n % k
        r2 == (r3 * Limb) % k
        r1 == (r2 * Limb) % k
        r0 == (r1 * Limb) % k
    IN  RoundToDouble(<<(r1 * Limb) \div k, (r2 * Limb) \div k, (r3 * Limb) \div k, n \div k>>,
                      r0 # 0)

IsWhole(a) == a[1] = 0 /\ a[2] = 0 /\ a[3] = 0

\* Math.floor, Math.ceil
MathFloor(a) == a[4]

MathCeil(a) == IF IsWhole(a) THEN a[4] ELSE a[4] + 1

calculatePercentile(sortedValues, percentile) ==
    IF Len(sortedValues) = 0 THEN Zero
    ELSE IF Len(sortedValues) = 1 THEN NumOf(sortedValues[1])
    ELSE IF percentile = NaN \/ percentile < 0 \/ percentile > 100
    THEN NumOf(NaN)     \* sortedValues[lower] or sortedValues[upper] is undefined
    ELSE LET index == NumTimes(NumDivide(percentile, 100), Len(sortedValues) - 1)
             lower == MathFloor(index)
             upper == MathCeil(index)
             weight == NumMinus(index, NumOf(lower))
         IN  NumPlus(NumTimes(NumMinus(NumOf(1), weight), sortedValues[lower + 1]),
                     NumTimes(weight, sortedValues[upper + 1]))

SlesOf(filtered, pcts) ==
    LET overallAges == SortAsc([i \in 1..Len(filtered) |-> filtered[i].overallAge]) IN
    [i \in 1..Len(pcts) |-> MathCeil(calculatePercentile(overallAges, pcts[i]))]

\* the `filtered` of every status of transitionsByStatusId
FilteredOf(transitions, w) ==
    [k \in DOMAIN transitions |-> filterTransitionsByWindow(transitions[k], w)]

\* calculateSLEsForStatuses without the early return for an empty sample
calculateSLEsKeepingEmpty(transitions, w, pcts) ==
    LET filtered == FilteredOf(transitions, w)
    IN  [k \in DOMAIN transitions |-> SlesOf(filtered[k], pcts)]

calculateSLEsForStatuses(transitions, w, pcts) ==
    LET filtered == FilteredOf(transitions, w)
        kept == {k \in DOMAIN transitions : Len(filtered[k]) # 0}
    IN  [k \in kept |-> SlesOf(filtered[k], pcts)]

----------------------------------------------------------------------------
(* groupByStatus, createColumns, buildOutput.  A transformed issue is its    *)
(* key, status name and status id; a Map that is iterated is the sequence of *)
(* its entries in insertion order; a column's top_text "WIP: n" is n; a      *)
(* column's sle is Null or <<thresholds>>.                                   *)

\* position of the entry of `name` in a list of named entries, 0 if none
RECURSIVE IndexOfName(_, _, _)
IndexOfName(entries, name, i) ==
    IF i > Len(entries) THEN 0
    ELSE IF entries[i].name = name THEN i
    ELSE IndexOfName(entries, name, i + 1)

RECURSIVE GroupFrom(_, _, _)
GroupFrom(issues, i, groups) ==
    IF i > Len(issues) THEN groups
    ELSE LET status == issues[i].status
             at == IndexOfName(groups, status, 1)
         IN  GroupFrom(issues, i + 1,
                       IF at = 0
                       THEN Append(groups, [name |-> status, issues |-> <<issues[i]>>])
                       ELSE [groups EXCEPT ![at].issues = Append(@, issues[i])])

\* groupByStatus passing over the first issue
groupByStatusAfterFirst(issues) == GroupFrom(issues, 2, <<>>)

groupByStatus(issues) == GroupFrom(issues, 1, <<>>)

\* statusIdMap of buildOutput: the first id seen for each live status name
RECURSIVE LiveStatusIds(_, _, _)
LiveStatusIds(issues, i, map) ==
    IF i > Len(issues) THEN map
    ELSE LiveStatusIds(issues, i + 1,
                       IF issues[i].status \in DOMAIN map THEN map
                       ELSE MapSet(map, issues[i].status, issues[i].statusId))

RECURSIVE NameToIdFrom(_, _, _)
NameToIdFrom(statusList, i, map) ==
    IF i > Len(statusList) THEN map
    ELSE NameToIdFrom(statusList, i + 1, MapSet(map, statusList[i].name, statusList[i].id))

buildStatusNameToIdMap(statusList) == NameToIdFrom(statusList, 1, EmptyMap)

\* allStatusNameToIdMap merged into statusIdMap, the live issues' ids first
MergeStatusIds(statusIdMap, allStatusNameToIdMap) ==
    [n \in (DOMAIN statusIdMap) \cup (DOMAIN allStatusNameToIdMap) |->
        IF n \in DOMAIN statusIdMap THEN statusIdMap[n] ELSE allStatusNameToIdMap[n]]

\* (statusId && slesByStatusId) ? slesByStatusId.get(statusId) : null, then || null
SleOf(statusName, sles, statusIdMap) ==
    LET statusId == MapGet(statusIdMap, statusName) IN
    IF statusId # Undefined /\ statusId \in DOMAIN sles THEN Some(sles[statusId]) ELSE Null

createColumns(issuesByStatus, sles, statusIdMap) ==
    [i \in 1..Len(issuesByStatus) |->
        [name |-> issuesByStatus[i].name,
         top_text |-> Len(issuesByStatus[i].issues),
         order |-> i,
         sle |-> SleOf(issuesByStatus[i].name, sles, statusIdMap),
         items |-> [j \in 1..Len(issuesByStatus[i].issues) |->
                       [key |-> issuesByStatus[i].issues[j].key]]]]

\* String.prototype.trim on the names of the model
trim(str) ==
    CASE str = " Review" -> "Review"
      [] str = "Done " -> "Done"
      [] OTHER -> str

\* the order given to a column that the list does not name
Unlisted == 9999

\* OrderOf putting the columns the list does not name first
OrderOfUnlistedFirst(orderArray, name) ==
    LET at == {i \in 1..Len(orderArray) : orderArray[i] = name} IN
    IF at = {} THEN -1 ELSE (CHOOSE i \in at : \A j \in at : j <= i) - 1

\* orderMap.get(name): the index of the last entry of the list that is `name`
OrderOf(orderArray, name) ==
    LET at == {i \in 1..Len(orderArray) : orderArray[i] = name} IN
    IF at = {} THEN Unlisted ELSE (CHOOSE i \in at : \A j \in at : j <= i) - 1

\* AddMissing adding no column
AddNone(orderArray, i, cols, sles, statusIdMap) == cols

\* orderArray.forEach: an empty column for each name that has none yet
RECURSIVE AddMissing(_, _, _, _, _)
AddMissing(orderArray, i, cols, sles, statusIdMap) ==
    IF i > Len(orderArray) THEN cols
    ELSE AddMissing(orderArray, i + 1,
                    IF IndexOfName(cols, orderArray[i], 1) # 0 THEN cols
                    ELSE Append(cols, [name |-> orderArray[i],
                                       top_text |-> 0,
                                       order |-> Unlisted,
                                       sle |-> SleOf(orderArray[i], sles, statusIdMap),
                                       items |-> <<>>]),
                    sles, statusIdMap)

\* stable insertion of a column into a list sorted by orderMap index
RECURSIVE InsertByOrder(_, _, _)
InsertByOrder(sorted, col, orderArray) ==
    IF Len(sorted) = 0 THEN <<col>>
    ELSE IF OrderOf(orderArray, col.name) < OrderOf(orderArray, sorted[Len(sorted)].name)
         THEN Append(InsertByOrder(SubSeq(sorted, 1, Len(sorted) - 1), col, orderArray),
                     sorted[Len(sorted)])
         ELSE Append(sorted, col)

\* columns.sort((a, b) => orderA - orderB), stable
RECURSIVE SortByOrder(_, _)
SortByOrder(cols, orderArray) ==
    IF Len(cols) = 0 THEN <<>>
    ELSE InsertByOrder(SortByOrder(SubSeq(cols, 1, Len(cols) - 1), orderArray),
                       cols[Len(cols)], orderArray)

\* columnsOrder is Null or the pieces of the option's value between its
\* commas; the empty string, whose only piece is empty, is falsy
HasOrder(order) == order # Null /\ order # <<"">>

\* the columns of buildOutput's result
buildOutput(issues, sles, order, allStatusNameToIdMap) ==
    LET issuesByStatus == groupByStatus(issues)
        statusIdMap == MergeStatusIds(LiveStatusIds(issues, 1, EmptyMap), allStatusNameToIdMap)
        cols == createColumns(issuesByStatus, sles, statusIdMap)
    IN  IF HasOrder(order)
        THEN LET orderArray == [i \in 1..Len(order) |-> trim(order[i])]
                 sorted == SortByOrder(AddMissing(orderArray, 1, cols, sles, statusIdMap),
                                       orderArray)
             IN  [i \in 1..Len(sorted) |-> [sorted[i] EXCEPT !.order = i]]
        ELSE cols

----------------------------------------------------------------------------
(* Inputs of the SLE calculation *)

\* historical issues move between statuses 1 and 2, one history a day at most
\* at 09:00, and are delivered newest first
SleStatusIds == {"1", "2"}

SleTimes == {d * DayLen + 9 : d \in 0..MaxDay}

SleIssues ==
    UNION {{IssueWith(p, ts, n, "newest-first") :
               p \in {q \in StatusPaths(n) : \A i \in 0..n : q[i] \in SleStatusIds},
               ts \in {u \in TimeSeqs(n) : \A i \in 1..n : u[i] \in SleTimes}} :
           n \in 0..MaxHist}

\* the issues of one response, keyed K-1, K-2, ... in response order
KeyOf(i) ==
    IF i = 1 THEN "K-1" ELSE IF i = 2 THEN "K-2" ELSE IF i = 3 THEN "K-3" ELSE "K-4"

SleIssueLists ==
    UNION {{[i \in 1..n |-> [f[i] EXCEPT !.key = KeyOf(i)]] : f \in [1..n -> SleIssues]} :
           n \in 0..MaxSleIssues}

WindowStrs ==
    {<<Digits[n + 1], "d">> : n \in 0..MaxWindow}
    \cup {<<Digits[n + 1]>> : n \in 1..MaxWindow}
    \cup {<<"2", "0", "2", "4", "-", "0", "2", "-", "0", "1">>,
          <<"2", "0", "2", "4", "0", "2", "0", "2">>,
          <<"1", "w">>}

DefaultPercentiles == <<50, 75, 85, 90>>

\* the state of the SLE calculation before it runs, or when it does not run
NoSle ==
    /\ sleIssues = <<>>
    /\ sleWindow = <<>>
    /\ percentiles = DefaultPercentiles
    /\ transitionsByStatusId = EmptyTransitions
    /\ window = NoWindow
    /\ filteredByStatusId = EmptyTransitions
    /\ slesByStatusId = EmptyTransitions

\* buildOutput has not run
NoOutput ==
    /\ liveIssues = <<>>
    /\ columnsOrder = Null
    /\ columns = <<>>

\* calculatePercentile is not under study
NoPercentile ==
    /\ pctSample = <<>>
    /\ pctRank = 0
    /\ pctResult = Zero

\* the changelog enrichment of getAllIssues is over or not under study
NoClock ==
    /\ now = 0
    /\ timers = <<>>
    /\ dispatchedAt = <<>>
    /\ allIssues = <<>>

NoPage ==
    /\ matching = 0
    /\ startAt = 0
    /\ total = Null
    /\ requests = 0

NoArgs ==
    /\ percentilesArg = <<>>
    /\ entryPoint = "cli"
    /\ statusIds = <<>>

NoFetch ==
    /\ activeIssues = <<>>
    /\ batchStart = 0
    /\ fetchState = <<>>

----------------------------------------------------------------------------
(* The live-issue pipeline: main -> buildStatusCategoryMap -> buildOutput *)

Init ==
    /\ statuses \in StatusScenarios
    /\ issue \in Issues
    /\ referenceDate \in RefDates
    /\ hostZone \in HostZones
    /\ statusCategoryMap = EmptyMap
    /\ firstStableExit = Null
    /\ mostRecentTransition = Null
    /\ ageMetrics = NoMetrics
    /\ NoSle
    /\ NoOutput /\ NoPercentile /\ NoFetch
    /\ NoClock /\ NoPage /\ NoArgs
    /\ pc = "fetched"

BuildMap ==
    /\ pc = "fetched"
    /\ statusCategoryMap' = buildStatusCategoryMap(statuses)
    /\ pc' = "mapped"
    /\ UNCHANGED <<restVars, statuses, referenceDate, hostZone, liveVars, sleVars>>

TransformIssue ==
    /\ pc = "mapped"
    /\ firstStableExit' =
           findFirstStableExitFromTodo(issue.changelog, statusCategoryMap, hostZone)
    /\ mostRecentTransition' =
           findMostRecentTransitionToStatus(issue.changelog, issue.status.id)
    /\ ageMetrics' = calculateAgeMetrics(issue, referenceDate, statusCategoryMap, hostZone)
    /\ pc' = "transformed"
    /\ UNCHANGED <<restVars, statuses, issue, referenceDate, hostZone, statusCategoryMap, sleVars>>

Next == BuildMap \/ TransformIssue

Spec == Init /\ [][Next]_vars

----------------------------------------------------------------------------
(* buildStatusCategoryMap over status metadata of every shape *)

CategoryShapes ==
    {NoCategory, Str(""), Obj("")}
    \cup {Str(tok) : tok \in {"TODO", "IN_PROGRESS", "DONE", "UNDEFINED"}}
    \cup {Obj(k) : k \in {"new", "indeterminate", "done", "undefined"}}

StatusDefs == {StatusDef(id, cat) : id \in StatusIds, cat \in CategoryShapes}

StatusLists == UNION {[1..n -> StatusDefs] : n \in 0..MaxStatuses}

InitCat ==
    /\ statuses \in StatusLists
    /\ issue = CHOOSE i \in Issues : i.changelog = Null
    /\ referenceDate = 0
    /\ hostZone = "UTC"
    /\ statusCategoryMap = EmptyMap
    /\ firstStableExit = Null
    /\ mostRecentTransition = Null
    /\ ageMetrics = NoMetrics
    /\ NoSle
    /\ NoOutput /\ NoPercentile /\ NoFetch
    /\ NoClock /\ NoPage /\ NoArgs
    /\ pc = "fetched"

SpecCat == InitCat /\ [][BuildMap]_vars

----------------------------------------------------------------------------
(* The SLE calculation of main: buildStatusCategoryMap, then for a non-empty *)
(* historical response extractStatusTransitions, parseWindow and             *)
(* calculateSLEsForStatuses                                                  *)

InitSle ==
    /\ statuses = <<StatusDef("1", Str("TODO")), StatusDef("2", Str("IN_PROGRESS"))>>
    /\ issue = CHOOSE i \in Issues : i.changelog = Null
    /\ referenceDate \in RefDates
    /\ hostZone \in HostZones
    /\ statusCategoryMap = EmptyMap
    /\ firstStableExit = Null
    /\ mostRecentTransition = Null
    /\ ageMetrics = NoMetrics
    /\ sleIssues \in SleIssueLists
    /\ sleWindow \in WindowStrs
    /\ percentiles = DefaultPercentiles
    /\ transitionsByStatusId = EmptyTransitions
    /\ window = NoWindow
    /\ filteredByStatusId = EmptyTransitions
    /\ slesByStatusId = EmptyTransitions
    /\ NoOutput /\ NoPercentile /\ NoFetch
    /\ NoClock /\ NoPage /\ NoArgs
    /\ pc = "fetched"

\* no historical issues: the SLE calculation is skipped
SkipSle ==
    /\ pc = "mapped"
    /\ Len(sleIssues) = 0
    /\ pc' = "sle-skipped"
    /\ UNCHANGED <<restVars, statuses, referenceDate, hostZone, statusCategoryMap, liveVars, sleVars>>

ExtractTransitions ==
    /\ pc = "mapped"
    /\ Len(sleIssues) > 0
    /\ transitionsByStatusId' = extractStatusTransitions(sleIssues, statusCategoryMap, hostZone)
    /\ pc' = "extracted"
    /\ UNCHANGED <<restVars, statuses, referenceDate, hostZone, statusCategoryMap, liveVars,
                   sleIssues, sleWindow, percentiles, window, filteredByStatusId,
                   slesByStatusId>>

ParseWindow ==
    /\ pc = "extracted"
    /\ window' = parseWindow(sleWindow, referenceDate, hostZone)
    /\ pc' = IF window'.type = "error" THEN "error" ELSE "windowed"
    /\ UNCHANGED <<restVars, statuses, referenceDate, hostZone, statusCategoryMap, liveVars,
                   sleIssues, sleWindow, percentiles, transitionsByStatusId,
                   filteredByStatusId, slesByStatusId>>

CalculateSLEs ==
    /\ pc = "windowed"
    /\ filteredByStatusId' = FilteredOf(transitionsByStatusId, window)
    /\ slesByStatusId' = calculateSLEsForStatuses(transitionsByStatusId, window, percentiles)
    /\ pc' = "sles"
    /\ UNCHANGED <<restVars, statuses, referenceDate, hostZone, statusCategoryMap, liveVars,
                   sleIssues, sleWindow, percentiles, transitionsByStatusId, window>>

NextSle == BuildMap \/ SkipSle \/ ExtractTransitions \/ ParseWindow \/ CalculateSLEs

SpecSle == InitSle /\ [][NextSle]_vars

----------------------------------------------------------------------------
(* filterTransitionsByWindow and calculateSLEsForStatuses over transition    *)
(* records of every order: the records of a status as extractStatusTransitions *)
(* can store them, a window string and a percentile list                     *)

MaxRecs == 3        \* records stored for one status

SampleAges == {1, 3}

RecordDays == 0..(MaxDay + 1)

\* lists of up to n records, keyed K-1, K-2, ... in stored order
RecordLists(n) ==
    UNION {{[i \in 1..m |-> [issueKey |-> KeyOf(i), exitDate |-> DateOfDay(d[i]),
                             overallAge |-> a[i]]] :
               d \in [1..m -> RecordDays], a \in [1..m -> SampleAges]} : m \in 0..n}

\* a map holds a status only once a record was pushed for it
TransitionMaps ==
    {[k \in {st \in SleStatusIds : Len(l[st]) > 0} |-> l[k]] :
        l \in {f \in [SleStatusIds -> RecordLists(MaxRecs)] : Len(f["2"]) <= 1}}

PercentileLists == {DefaultPercentiles, <<90, 50>>, <<10, 50, 90>>}

InitFilter ==
    /\ statuses = <<StatusDef("1", Str("TODO")), StatusDef("2", Str("IN_PROGRESS"))>>
    /\ issue = CHOOSE i \in Issues : i.changelog = Null
    /\ referenceDate = (MaxDay + 1) * DayLen
    /\ hostZone = "UTC"
    /\ statusCategoryMap = buildStatusCategoryMap(statuses)
    /\ firstStableExit = Null
    /\ mostRecentTransition = Null
    /\ ageMetrics = NoMetrics
    /\ sleIssues = <<>>
    /\ sleWindow \in WindowStrs
    /\ percentiles \in PercentileLists
    /\ transitionsByStatusId \in TransitionMaps
    /\ window = NoWindow
    /\ filteredByStatusId = EmptyTransitions
    /\ slesByStatusId = EmptyTransitions
    /\ NoOutput /\ NoPercentile /\ NoFetch
    /\ NoClock /\ NoPage /\ NoArgs
    /\ pc = "extracted"

NextFilter == ParseWindow \/ CalculateSLEs

SpecFilter == InitFilter /\ [][NextFilter]_vars

----------------------------------------------------------------------------
(* parseWindow over window strings of every kind *)

MaxDigits == 2      \* digits of a number written in a window string

Numerals == UNION {[1..n -> {"0", "1", "2"}] : n \in 1..MaxDigits}

\* 2024, a month, a day, each hyphen present or not
DateLikeStrs ==
    {<<"2", "0", "2", "4">> \o h1 \o mm \o h2 \o dd :
        h1 \in {<<>>, <<"-">>}, h2 \in {<<>>, <<"-">>},
        mm \in {<<"0", "2">>, <<"1", "3">>}, dd \in {<<"0", "1">>, <<"4", "5">>}}

OtherStrs ==
    {<<>>, <<"d">>, <<"1", "w">>, <<"-", "1">>, <<"1", ".", "5">>, <<" ", "1">>,
     <<"1", "d", " ">>, <<"2", "0", "2", "4", "-", "2", "-", "1">>,
     <<"2", "0", "2", "4", "/", "0", "2", "/", "0", "1">>}

WindowInputs ==
    Numerals
    \cup {n \o <<u>> : n \in Numerals, u \in {"d", "D"}}
    \cup DateLikeStrs
    \cup OtherStrs

InitWin ==
    /\ statuses = <<StatusDef("1", Str("TODO")), StatusDef("2", Str("IN_PROGRESS"))>>
    /\ issue = CHOOSE i \in Issues : i.changelog = Null
    /\ referenceDate \in RefDates
    /\ hostZone \in HostZones
    /\ statusCategoryMap = buildStatusCategoryMap(statuses)
    /\ firstStableExit = Null
    /\ mostRecentTransition = Null
    /\ ageMetrics = NoMetrics
    /\ sleIssues = <<>>
    /\ sleWindow \in WindowInputs
    /\ percentiles = DefaultPercentiles
    /\ transitionsByStatusId = EmptyTransitions
    /\ window = NoWindow
    /\ filteredByStatusId = EmptyTransitions
    /\ slesByStatusId = EmptyTransitions
    /\ NoOutput /\ NoPercentile /\ NoFetch
    /\ NoClock /\ NoPage /\ NoArgs
    /\ pc = "extracted"

SpecWin == InitWin /\ [][ParseWindow]_vars

----------------------------------------------------------------------------
(* calculatePercentile over ascending samples *)

MaxSample == 4      \* values in one sample

PctAges == {1, 2, 3, 4, 6}

PctRanks == {0, 10, 20, 50, 75, 85, 90, 100}

\* the ascending samples of up to MaxSample values, the empty one included
SortedSamples ==
    UNION {{v \in [1..n -> PctAges] : \A i \in 1..(n - 1) : v[i] <= v[i + 1]} :
           n \in 0..MaxSample}

InitPct ==
    /\ statuses = <<>>
    /\ issue = CHOOSE i \in Issues : i.changelog = Null
    /\ referenceDate = 0
    /\ hostZone = "UTC"
    /\ statusCategoryMap = EmptyMap
    /\ firstStableExit = Null
    /\ mostRecentTransition = Null
    /\ ageMetrics = NoMetrics
    /\ NoSle
    /\ NoOutput /\ NoFetch
    /\ NoClock /\ NoPage /\ NoArgs
    /\ pctSample \in SortedSamples
    /\ pctRank \in PctRanks
    /\ pctResult = Zero
    /\ pc = "sample"

CalculatePercentile ==
    /\ pc = "sample"
    /\ pctResult' = calculatePercentile(pctSample, pctRank)
    /\ pc' = "percentile"
    /\ UNCHANGED <<statuses, referenceDate, hostZone, statusCategoryMap, liveVars, sleVars,
                   extVars,
                   outVars, fetchVars, pctSample, pctRank>>

SpecPct == InitPct /\ [][CalculatePercentile]_vars

----------------------------------------------------------------------------
(* The output of main: the SLE calculation over a few historical samples,    *)
(* then buildOutput over live issues and a --columns-order list              *)

MaxLive == 3        \* live issues on the board
MaxOrder == 3       \* names in a --columns-order list

LiveIssueLists ==
    UNION {{[i \in 1..n |-> [key |-> KeyOf(i), status |-> StatusName(ids[i]),
                             statusId |-> ids[i]]] : ids \in [1..n -> StatusIds]} :
           n \in 1..MaxLive}

OrderEntries == {"To Do", "Review", " Review", "Done"}

ColumnOrders == {Null, <<"">>} \cup UNION {[1..n -> OrderEntries] : n \in 1..MaxOrder}

\* records of statuses 1 and 3: none; a recent one of 1 and an old one of 3;
\* a recent one of 1, an old and a recent one of 3
OutTransitions ==
    LET old == [issueKey |-> "H-1", exitDate |-> DateOfDay(0), overallAge |-> 3]
        recent == [issueKey |-> "H-2", exitDate |-> DateOfDay(MaxDay + 1), overallAge |-> 1]
    IN  {EmptyTransitions,
         MapSet(MapSet(EmptyTransitions, "1", <<recent>>), "3", <<old>>),
         MapSet(MapSet(EmptyTransitions, "1", <<recent>>), "3", <<old, recent>>)}

OutWindows == {<<"1">>, <<"1", "d">>}

InitOut ==
    /\ statuses = <<StatusDef("1", Str("TODO")), StatusDef("2", Str("IN_PROGRESS")),
                    StatusDef("3", NoCategory)>>
    /\ issue = CHOOSE i \in Issues : i.changelog = Null
    /\ referenceDate = (MaxDay + 1) * DayLen
    /\ hostZone = "UTC"
    /\ statusCategoryMap = buildStatusCategoryMap(statuses)
    /\ firstStableExit = Null
    /\ mostRecentTransition = Null
    /\ ageMetrics = NoMetrics
    /\ sleIssues = <<>>
    /\ sleWindow \in OutWindows
    /\ percentiles = DefaultPercentiles
    /\ transitionsByStatusId \in OutTransitions
    /\ window = NoWindow
    /\ filteredByStatusId = EmptyTransitions
    /\ slesByStatusId = EmptyTransitions
    /\ liveIssues \in LiveIssueLists
    /\ columnsOrder \in ColumnOrders
    /\ columns = <<>>
    /\ NoPercentile /\ NoFetch
    /\ NoClock /\ NoPage /\ NoArgs
    /\ pc = "extracted"

BuildOutput ==
    /\ pc \in {"sles", "sle-skipped"}
    /\ columns' = buildOutput(liveIssues, slesByStatusId, columnsOrder,
                              buildStatusNameToIdMap(statuses))
    /\ pc' = "output"
    /\ UNCHANGED <<statuses, referenceDate, hostZone, statusCategoryMap, liveVars, sleVars,
                   extVars,
                   pctVars, fetchVars, liveIssues, columnsOrder>>

NextOut == ParseWindow \/ CalculateSLEs \/ BuildOutput

SpecOut == InitOut /\ [][NextOut]_vars

----------------------------------------------------------------------------
(* The changelog enrichment of JiraClient.getAllIssues.  activeIssues is the *)
(* list of the issues to enrich, numbered in response order.  The fetch of   *)
(* an issue is "pending" before its batch starts, "sleeping" in the          *)
(* rate-limit delay of request, "requesting" once makeRequest was called,    *)
(* and "ok" or "failed" once its promise has settled; a failure is caught    *)
(* by the callback, whose own promise resolves.                              *)

MaxActive == 11     \* issues to enrich
MaxMixed == 3       \* issues of a response that also holds done issues

batchSize == 10

RATE_LIMIT_DELAY == 100

\* the time between the dispatch of a batch's requests and the moment the
\* slowest of them has settled, in milliseconds
Latencies == {0, 40}

\* an issue of a search response: its changelog is the one of the search
\* ("search") until the enrichment replaces it by the complete one ("full")
SearchIssue(k, category) ==
    [key |-> k, statusCategory |-> category, changelog |-> "search"]

SearchResults ==
    {[i \in 1..n |-> SearchIssue(i, "indeterminate")] : n \in 0..MaxActive}
    \cup UNION {{[i \in 1..n |-> SearchIssue(i, cats[i])] :
                    cats \in [1..n -> {"indeterminate", "done"}]} : n \in 1..MaxMixed}

\* allIssues.filter(...): the issues that are not done, as positions in allIssues
ActiveOf(all) ==
    SelectSeq([i \in 1..Len(all) |-> i], LAMBDA i : all[i].statusCategory # "done")

\* the positions in activeIssues of the batch that starts at index i
BatchAt(i) == (i + 1)..Min(i + batchSize, Len(activeIssues))

\* AllSettled resolving as soon as one promise of the batch has settled
AnySettled(i) == \E j \in BatchAt(i) : fetchState[j] \in {"ok", "failed"}

\* every promise of the batch has settled, so that Promise.all resolves
AllSettled(i) == \A j \in BatchAt(i) : fetchState[j] \in {"ok", "failed"}

InitFetch ==
    /\ statuses = <<>>
    /\ issue = CHOOSE i \in Issues : i.changelog = Null
    /\ referenceDate = 0
    /\ hostZone = "UTC"
    /\ statusCategoryMap = EmptyMap
    /\ firstStableExit = Null
    /\ mostRecentTransition = Null
    /\ ageMetrics = NoMetrics
    /\ NoSle
    /\ NoOutput /\ NoPercentile
    /\ NoPage /\ NoArgs
    /\ allIssues \in SearchResults
    /\ activeIssues = ActiveOf(allIssues)
    /\ batchStart = 0
    /\ fetchState = [i \in 1..Len(activeIssues) |-> "pending"]
    /\ now = 0
    /\ timers = [i \in 1..Len(activeIssues) |-> 0]
    /\ dispatchedAt = [i \in 1..Len(activeIssues) |-> Null]
    /\ pc = "enriching"

\* the loop body up to the await: batch.map calls the callback of every
\* issue of the batch, each of which runs into the delay of request
StartBatch ==
    /\ pc = "enriching"
    /\ batchStart < Len(activeIssues)
    /\ fetchState' = [j \in 1..Len(activeIssues) |->
                         IF j \in BatchAt(batchStart) THEN "sleeping" ELSE fetchState[j]]
    /\ timers' = [j \in 1..Len(activeIssues) |->
                     IF j \in BatchAt(batchStart) THEN now + RATE_LIMIT_DELAY
                     ELSE timers[j]]
    /\ pc' = "awaiting"
    /\ UNCHANGED <<statuses, referenceDate, hostZone, statusCategoryMap, liveVars, sleVars,
                   outVars, pctVars, pageVars, argVars, activeIssues, batchStart,
                   now, dispatchedAt, allIssues>>

\* the delay of request is over and makeRequest is called; timers of equal
\* delay fire in the order in which they were set
SleepDone(j) ==
    /\ fetchState[j] = "sleeping"
    /\ \A k \in 1..(j - 1) : fetchState[k] # "sleeping"
    /\ fetchState' = [fetchState EXCEPT ![j] = "requesting"]
    /\ now' = Max(now, timers[j])
    /\ dispatchedAt' = [dispatchedAt EXCEPT ![j] = Some(now')]
    /\ UNCHANGED <<statuses, referenceDate, hostZone, statusCategoryMap, liveVars, sleVars,
                   outVars, pctVars, pageVars, argVars, activeIssues, batchStart, pc,
                   timers, allIssues>>

\* the response arrives and the changelog is taken over
FetchOk(j) ==
    /\ fetchState[j] = "requesting"
    /\ fetchState' = [fetchState EXCEPT ![j] = "ok"]
    /\ allIssues' = [allIssues EXCEPT ![activeIssues[j]].changelog = "full"]
    /\ UNCHANGED <<statuses, referenceDate, hostZone, statusCategoryMap, liveVars, sleVars,
                   outVars, pctVars, pageVars, argVars, activeIssues, batchStart, pc,
                   now, timers, dispatchedAt>>

\* a fetch failing as if Promise.all were given the bare requests: the
\* rejection ends getAllIssues
FetchFailAborting(j) ==
    /\ fetchState[j] = "requesting"
    /\ fetchState' = [fetchState EXCEPT ![j] = "failed"]
    /\ pc' = "rejected"
    /\ UNCHANGED <<statuses, referenceDate, hostZone, statusCategoryMap, liveVars, sleVars,
                   outVars, pctVars, pageVars, argVars, activeIssues, batchStart,
                   clockVars>>

\* the request fails and the catch block logs the warning
FetchFail(j) ==
    /\ fetchState[j] = "requesting"
    /\ fetchState' = [fetchState EXCEPT ![j] = "failed"]
    /\ UNCHANGED <<statuses, referenceDate, hostZone, statusCategoryMap, liveVars, sleVars,
                   outVars, pctVars, pageVars, argVars, activeIssues, batchStart, pc,
                   clockVars>>

\* await Promise.all(...) resumes once the slowest response is there; i += batchSize
BatchSettled ==
    /\ pc = "awaiting"
    /\ AllSettled(batchStart)
    /\ batchStart' = batchStart + batchSize
    /\ \E latency \in Latencies : now' = now + latency
    /\ pc' = "enriching"
    /\ UNCHANGED <<statuses, referenceDate, hostZone, statusCategoryMap, liveVars, sleVars,
                   outVars, pctVars, pageVars, argVars, activeIssues, fetchState,
                   timers, dispatchedAt, allIssues>>

\* the loop is over, or there was nothing to enrich: return allIssues
ReturnIssues ==
    /\ pc = "enriching"
    /\ batchStart >= Len(activeIssues)
    /\ pc' = "fetched"
    /\ UNCHANGED <<statuses, referenceDate, hostZone, statusCategoryMap, liveVars, sleVars,
                   restVars>>

NextFetch ==
    \/ StartBatch
    \/ \E j \in 1..Len(activeIssues) : SleepDone(j)
    \/ \E j \in 1..Len(activeIssues) : FetchOk(j)
    \/ \E j \in 1..Len(activeIssues) : FetchFail(j)
    \/ BatchSettled
    \/ ReturnIssues

SpecFetch == InitFetch /\ [][NextFetch]_vars

\* the event loop runs every callback that is ready, and every request
\* settles, with a response or with an error
SpecFetchFair == SpecFetch /\ WF_vars(NextFetch)

----------------------------------------------------------------------------
(* A run of main: parseCLIArgs, the live issues, the status metadata of the  *)
(* ids that extractUniqueStatusIds collects, the SLE calculation and         *)
(* buildOutput.  A live issue is its key, status name, status id and         *)
(* changelog.                                                                *)

\* String.prototype.trim on a piece of the --percentiles value
RECURSIVE trimPiece(_)
trimPiece(str) ==
    IF Len(str) > 0 /\ str[1] = " " THEN trimPiece(Tail(str))
    ELSE IF Len(str) > 0 /\ str[Len(str)] = " " THEN trimPiece(SubSeq(str, 1, Len(str) - 1))
    ELSE str

\* values.percentiles.split(',').map(p => parseInt(p.trim()))
ParsePercentiles(pieces) == [i \in 1..Len(pieces) |-> parseInt(trimPiece(pieces[i]))]

\* Set.prototype.add on a set kept in insertion order; a falsy id is not added
AddId(ids, id) ==
    IF id = "" \/ (\E i \in 1..Len(ids) : ids[i] = id) THEN ids ELSE Append(ids, id)

RECURSIVE IdsOfHistories(_, _, _)
IdsOfHistories(histories, i, ids) ==
    IF i > Len(histories) THEN ids
    ELSE LET item == histories[i].items[1] IN
         IdsOfHistories(histories, i + 1,
                        IF item.field = "status"
                        THEN AddId(AddId(ids, item.from), item.to)
                        ELSE ids)

RECURSIVE IdsOfIssues(_, _, _)
IdsOfIssues(issues, i, ids) ==
    IF i > Len(issues) THEN ids
    ELSE LET own == AddId(ids, issues[i].statusId) IN
         IdsOfIssues(issues, i + 1,
                     IF issues[i].changelog = Null THEN own
                     ELSE IdsOfHistories(issues[i].changelog[1].histories, 1, own))

extractUniqueStatusIds(issues) == IdsOfIssues(issues, 1, <<>>)

\* the tracker's status metadata
JiraStatuses ==
    <<StatusDef("1", Str("TODO")), StatusDef("2", Str("IN_PROGRESS")),
      StatusDef("3", Str("IN_PROGRESS"))>>

\* the response to /rest/api/3/statuses?id=...: the definitions of the ids asked for
getStatusesByIds(ids) ==
    SelectSeq(JiraStatuses, LAMBDA st : \E i \in 1..Len(ids) : ids[i] = st.id)

LiveIssue(i, id, histories) ==
    [key |-> KeyOf(i), status |-> StatusName(id), statusId |-> id,
     changelog |-> IF Len(histories) = 0 THEN Null ELSE <<[histories |-> histories]>>]

StatusChange(t, from, to) ==
    [created |-> t, items |-> <<[field |-> "status", from |-> from, to |-> to]>>]

MainLiveLists ==
    {<<>>,
     <<LiveIssue(1, "1", <<>>)>>,
     <<LiveIssue(1, "3", <<StatusChange(9, "1", "3")>>)>>,
     <<LiveIssue(1, "1", <<>>), LiveIssue(2, "2", <<StatusChange(9, "1", "2")>>)>>}

\* no historical issues, or two that left status 2 once each
MainSleLists ==
    {<<>>} \cup {l \in SleIssueLists :
                    /\ Len(l) = 2
                    /\ \A i \in 1..2 :
                           /\ l[i].changelog # Null
                           /\ Len(l[i].changelog[1].histories) = 2
                           /\ \A h \in 1..2 :
                                  l[i].changelog[1].histories[h].items[1].field = "status"}

MainWindows ==
    {<<"1", "d">>, <<"2">>, <<"1", "w">>, <<"d">>}

MainPercentiles ==
    {<<<<"5", "0">>, <<"7", "5">>, <<"8", "5">>, <<"9", "0">>>>,
     <<<<"5", "0">>, <<" ", "8", "5">>>>,
     <<<<"a", "b", "c">>>>,
     <<<<"5", "0">>, <<>>>>,
     <<<<"5", "0">>, <<"1", "5", "0">>>>,
     <<<<"-", "5">>, <<"9", "0">>>>}

InitMain ==
    /\ statuses = <<>>
    /\ issue = CHOOSE i \in Issues : i.changelog = Null
    /\ referenceDate = (MaxDay + 1) * DayLen
    /\ hostZone = "UTC"
    /\ statusCategoryMap = EmptyMap
    /\ firstStableExit = Null
    /\ mostRecentTransition = Null
    /\ ageMetrics = NoMetrics
    /\ sleIssues \in MainSleLists
    /\ sleWindow \in MainWindows
    /\ percentiles = <<>>
    /\ transitionsByStatusId = EmptyTransitions
    /\ window = NoWindow
    /\ filteredByStatusId = EmptyTransitions
    /\ slesByStatusId = EmptyTransitions
    /\ liveIssues \in MainLiveLists
    /\ columnsOrder = Null
    /\ columns = <<>>
    /\ NoPercentile /\ NoFetch
    /\ NoClock /\ NoPage
    /\ percentilesArg \in MainPercentiles
    /\ entryPoint = "cli"
    /\ statusIds = <<>>
    /\ pc = "start"

ParseCLIArgs ==
    /\ pc = "start"
    /\ percentiles' = ParsePercentiles(percentilesArg)
    /\ pc' = "args"
    /\ UNCHANGED <<statuses, referenceDate, hostZone, statusCategoryMap, liveVars,
                   sleIssues, sleWindow, transitionsByStatusId, window,
                   filteredByStatusId, slesByStatusId, restVars>>

\* issues.length === 0: { columns: [] } is printed and main returns
EmptyBoard ==
    /\ pc = "args"
    /\ Len(liveIssues) = 0
    /\ columns' = <<>>
    /\ pc' = "output"
    /\ UNCHANGED <<statuses, referenceDate, hostZone, statusCategoryMap, liveVars, sleVars,
                   pctVars, fetchVars, extVars, liveIssues, columnsOrder>>

FetchStatuses ==
    /\ pc = "args"
    /\ Len(liveIssues) > 0
    /\ statusIds' = extractUniqueStatusIds(liveIssues)
    /\ statuses' = getStatusesByIds(statusIds')
    /\ pc' = "fetched"
    /\ UNCHANGED <<referenceDate, hostZone, statusCategoryMap, liveVars, sleVars,
                   outVars, pctVars, fetchVars, clockVars, pageVars,
                   percentilesArg, entryPoint>>

NextMain ==
    \/ ParseCLIArgs
    \/ EmptyBoard
    \/ FetchStatuses
    \/ BuildMap
    \/ SkipSle
    \/ ExtractTransitions
    \/ ParseWindow
    \/ CalculateSLEs
    \/ BuildOutput

SpecMain == InitMain /\ [][NextMain]_vars

----------------------------------------------------------------------------
(* The SLE window of the three HTTP entry points: the /generate-chart        *)
(* handler of startServer, /api/chart-data of server-prod.js, and the PHP    *)
(* wrapper api/chart-data.php, which runs the CLI.  sleWindow is the         *)
(* request's sleWindow parameter, a number of days.                          *)

EntryPoints == {"server", "server-prod", "php"}

DayCounts == {<<Digits[n + 1]>> : n \in 1..MaxWindow}

\* a Number given where a window object is expected: it has no type property
NumberWindow(n) == [type |-> Undefined, date |-> <<0, 0, 0>>, count |-> n]

InitEntry ==
    /\ statuses = <<StatusDef("1", Str("TODO")), StatusDef("2", Str("IN_PROGRESS")),
                    StatusDef("3", Str("IN_PROGRESS"))>>
    /\ issue = CHOOSE i \in Issues : i.changelog = Null
    /\ referenceDate \in RefDates
    /\ hostZone \in HostZones
    /\ statusCategoryMap = buildStatusCategoryMap(statuses)
    /\ firstStableExit = Null
    /\ mostRecentTransition = Null
    /\ ageMetrics = NoMetrics
    /\ sleIssues = <<>>
    /\ sleWindow \in DayCounts
    /\ percentiles = <<>>
    /\ transitionsByStatusId \in OutTransitions
    /\ window = NoWindow
    /\ filteredByStatusId = EmptyTransitions
    /\ slesByStatusId = EmptyTransitions
    /\ NoOutput /\ NoPercentile /\ NoFetch
    /\ NoClock /\ NoPage
    /\ percentilesArg = <<>>
    /\ entryPoint \in EntryPoints
    /\ statusIds = <<>>
    /\ pc = "extracted"

\* startServer: sleWindow = parseInt(params.sleWindow), percentiles = [50, 70, 85, 95]
ServerWindow ==
    /\ pc = "extracted"
    /\ entryPoint = "server"
    /\ window' = NumberWindow(parseInt(sleWindow))
    /\ percentiles' = <<50, 70, 85, 95>>
    /\ pc' = "windowed"
    /\ UNCHANGED <<restVars, statuses, referenceDate, hostZone, statusCategoryMap, liveVars,
                   sleIssues, sleWindow, transitionsByStatusId, filteredByStatusId,
                   slesByStatusId>>

\* server-prod.js: parseWindow(`${params.sleWindow}d`, date), percentiles = [50, 75, 85, 90]
ProdWindow ==
    /\ pc = "extracted"
    /\ entryPoint = "server-prod"
    /\ window' = parseWindow(Append(sleWindow, "d"), referenceDate, hostZone)
    /\ percentiles' = DefaultPercentiles
    /\ pc' = IF window'.type = "error" THEN "error" ELSE "windowed"
    /\ UNCHANGED <<restVars, statuses, referenceDate, hostZone, statusCategoryMap, liveVars,
                   sleIssues, sleWindow, transitionsByStatusId, filteredByStatusId,
                   slesByStatusId>>

\* api/chart-data.php: the CLI is run with -w <sleWindow> and its default percentiles
PhpWindow ==
    /\ pc = "extracted"
    /\ entryPoint = "php"
    /\ window' = parseWindow(sleWindow, referenceDate, hostZone)
    /\ percentiles' = DefaultPercentiles
    /\ pc' = IF window'.type = "error" THEN "error" ELSE "windowed"
    /\ UNCHANGED <<restVars, statuses, referenceDate, hostZone, statusCategoryMap, liveVars,
                   sleIssues, sleWindow, transitionsByStatusId, filteredByStatusId,
                   slesByStatusId>>

NextEntry == ServerWindow \/ ProdWindow \/ PhpWindow \/ CalculateSLEs

SpecEntry == InitEntry /\ [][NextEntry]_vars

----------------------------------------------------------------------------
(* The paging loop of JiraClient.getAllIssues.  The tracker holds `matching` *)
(* issues that the JQL matches, a number that changes while the loop runs    *)
(* (issues are created, resolved, moved); a search response carries the      *)
(* issues from startAt on, a page at most, and the current total.            *)

MaxMatching == 6    \* issues the JQL matches
MaxPage == 2        \* issues of one page (MAX_RESULTS_PER_PAGE, 100 in the code)

\* response.issues of searchIssues(jql, at)
PageAt(at) ==
    [i \in 1..Min(MaxPage, Max(0, matching - at)) |-> SearchIssue(at + i, "indeterminate")]

InitPage ==
    /\ statuses = <<>>
    /\ issue = CHOOSE i \in Issues : i.changelog = Null
    /\ referenceDate = 0
    /\ hostZone = "UTC"
    /\ statusCategoryMap = EmptyMap
    /\ firstStableExit = Null
    /\ mostRecentTransition = Null
    /\ ageMetrics = NoMetrics
    /\ NoSle
    /\ NoOutput /\ NoPercentile /\ NoFetch
    /\ NoClock /\ NoArgs
    /\ matching \in 0..MaxMatching
    /\ startAt = 0
    /\ total = Null
    /\ requests = 0
    /\ pc = "paging"

\* one pass of the do ... while loop
SearchPage ==
    /\ pc = "paging"
    /\ allIssues' = allIssues \o PageAt(startAt)
    /\ total' = IF total = Null THEN Some(matching) ELSE total
    /\ startAt' = startAt + Len(PageAt(startAt))
    /\ requests' = (requests + 1) % 2
    /\ pc' = IF Len(allIssues') < total'[1] THEN "paging" ELSE "paged"
    /\ UNCHANGED <<statuses, referenceDate, hostZone, statusCategoryMap, liveVars, sleVars,
                   outVars, pctVars, fetchVars, argVars, matching,
                   now, timers, dispatchedAt>>

\* an issue stops matching the JQL
IssueLeaves ==
    /\ pc = "paging"
    /\ matching > 0
    /\ matching' = matching - 1
    /\ UNCHANGED <<statuses, referenceDate, hostZone, statusCategoryMap, liveVars, sleVars,
                   outVars, pctVars, fetchVars, argVars, clockVars, startAt, total,
                   requests, pc>>

\* an issue starts to match the JQL
IssueArrives ==
    /\ pc = "paging"
    /\ matching < MaxMatching
    /\ matching' = matching + 1
    /\ UNCHANGED <<statuses, referenceDate, hostZone, statusCategoryMap, liveVars, sleVars,
                   outVars, pctVars, fetchVars, argVars, clockVars, startAt, total,
                   requests, pc>>

NextPage == SearchPage \/ IssueLeaves \/ IssueArrives

SpecPage == InitPage /\ [][NextPage]_vars

\* the loop keeps running: every request is sent and answered
SpecPageFair == SpecPage /\ WF_vars(SearchPage)

----------------------------------------------------------------------------
(* Vocabulary of the claims about the live-issue pipeline *)

Transformed == pc = "transformed"

\* the issue's histories, oldest first, as the tracker recorded them
Chron(iss) ==
    IF iss.changelog = Null THEN <<>>
    ELSE IF iss.delivery = "newest-first"
         THEN Reverse(iss.changelog[1].histories)
         ELSE iss.changelog[1].histories

IsStatusEvent(h) == \E k \in 1..Len(h.items) : h.items[k].field = "status"

FromOf(h) == (CHOOSE k \in 1..Len(h.items) : h.items[k].field = "status")
ToOf(h) == h.items[CHOOSE k \in 1..Len(h.items) : h.items[k].field = "status"].to
FromIdOf(h) == h.items[FromOf(h)].from

CategoryOf(id) == MapGet(statusCategoryMap, id)

\* an exit from the Backlog category: out of a Backlog status, into a status
\* that is not Backlog
IsBacklogExit(h) ==
    IsStatusEvent(h) /\ CategoryOf(FromIdOf(h)) = "new" /\ CategoryOf(ToOf(h)) # "new"

\* event i of the chronological list c is followed, on its calendar day, by an
\* event into the Backlog category
ReturnsSameDay(c, i) ==
    \E j \in (i + 1)..Len(c) :
        /\ IsStatusEvent(c[j])
        /\ LocalDay(hostZone, c[j].created) = LocalDay(hostZone, c[i].created)
        /\ CategoryOf(ToOf(c[j])) = "new"

SurvivingExits(c) == {i \in 1..Len(c) : IsBacklogExit(c[i]) /\ ~ReturnsSameDay(c, i)}

DiscardedExits(c) == {i \in 1..Len(c) : IsBacklogExit(c[i]) /\ ReturnsSameDay(c, i)}

MinOf(S) == CHOOSE x \in S : \A y \in S : x <= y
MaxOf(S) == CHOOSE x \in S : \A y \in S : x >= y

----------------------------------------------------------------------------
(* C1: for every issue, changelog and reference date, also a reference date  *)
(* at or before the anchor dates, age >= 1 and age_in_current_state >= 1.    *)
C1_AgesAtLeastOne ==
    Transformed => ageMetrics.age >= 1 /\ ageMetrics.age_in_current_state >= 1

\* a transformed issue whose reference date precedes both anchors
C1_Witness ==
    /\ Transformed
    /\ referenceDate < OrElse(firstStableExit, issue.created)
    /\ referenceDate < OrElse(mostRecentTransition, issue.created)
    /\ firstStableExit # Null

(* C2: an exit from Backlog that is followed the same calendar day by an     *)
(* event into Backlog is never returned; the result is the first exit with   *)
(* no such same-day return; with no surviving exit the result is empty and   *)
(* the age anchor is the creation date.                                      *)
C2_FirstSurvivingExit ==
    Transformed =>
        LET c == Chron(issue) IN
        IF SurvivingExits(c) = {}
        THEN /\ firstStableExit = Null
             /\ ageMetrics.age = calculateAge(issue.created, referenceDate)
        ELSE firstStableExit = Some(c[MinOf(SurvivingExits(c))].created)

(* C3: no event dated on the calendar day of a discarded candidate exit is   *)
(* ever returned as the stable exit.                                         *)
C3_DiscardedDaySkipped ==
    Transformed /\ firstStableExit # Null =>
        LET c == Chron(issue) IN
        \A i \in DiscardedExits(c) :
            LocalDay(hostZone, c[i].created) # LocalDay(hostZone, firstStableExit[1])

(* C4: the stable-exit scan walks the status events oldest first whatever    *)
(* order the changelog was delivered in, so its result does not depend on    *)
(* the delivery order.                                                       *)
C4_ChronologicalScan ==
    Transformed /\ issue.changelog # Null =>
        LET scan == ScanOrder(issue.changelog[1].histories) IN
        /\ \A i, j \in 1..Len(scan) :
               i < j /\ IsStatusEvent(scan[i]) /\ IsStatusEvent(scan[j])
                   => scan[i].created <= scan[j].created
        /\ firstStableExit =
               findFirstStableExitFromTodo(<<[histories |-> Reverse(Chron(issue))]>>,
                                           statusCategoryMap, hostZone)

(* C5: findMostRecentTransitionToStatus returns the latest timestamp among   *)
(* the events whose target is the current status (empty if there is none),   *)
(* for every delivery order.                                                 *)
C5_MostRecentEntry ==
    Transformed =>
        LET c == Chron(issue)
            entries == {i \in 1..Len(c) : IsStatusEvent(c[i]) /\ ToOf(c[i]) = issue.status.id}
        IN  IF entries = {} THEN mostRecentTransition = Null
            ELSE mostRecentTransition = Some(MaxOf({c[i].created : i \in entries}))

(* C6: total age counts calendar days inclusively: an anchor on calendar     *)
(* date D (any time of day) and a reference date R >= D give age R - D + 1.  *)
C6_InclusiveCalendarDays ==
    Transformed =>
        LET D == OrElse(firstStableExit, issue.created) \div DayLen
            R == referenceDate \div DayLen
        IN  R >= D => ageMetrics.age = R - D + 1

(* C7: an event is accepted as the stable exit only if its from-status       *)
(* resolves to Backlog and its to-status resolves to a known category other  *)
(* than Backlog; otherwise the anchor is the creation date.                  *)
C7_UnknownTargetIneligible ==
    Transformed =>
        LET c == Chron(issue)
            eligible == {i \in 1..Len(c) :
                            /\ IsStatusEvent(c[i])
                            /\ CategoryOf(FromIdOf(c[i])) = "new"
                            /\ ToOf(c[i]) \in DOMAIN statusCategoryMap
                            /\ CategoryOf(ToOf(c[i])) # "new"}
        IN  IF eligible = {}
            THEN firstStableExit = Null
            ELSE firstStableExit # Null =>
                    \E i \in eligible : firstStableExit = Some(c[i].created)

----------------------------------------------------------------------------
(* Vocabulary of the claims about buildStatusCategoryMap *)

Mapped == pc = "mapped"

NormalizedCategories == {"new", "indeterminate", "done"}

HasCategory(st) == st.statusCategory.shape # "none" /\ st.statusCategory.key # ""

\* what a present category value is stored as
StoredKey(cat) ==
    IF cat.shape = "object" THEN cat.key
    ELSE CASE cat.key = "TODO" -> "new"
           [] cat.key = "IN_PROGRESS" -> "indeterminate"
           [] cat.key = "DONE" -> "done"
           [] cat.key = "UNDEFINED" -> "undefined"
           [] OTHER -> cat.key

\* the positions of the list that give key k a category
Givers(k) ==
    {i \in 1..Len(statuses) :
        HasCategory(statuses[i]) /\ (statuses[i].id = k \/ statuses[i].name = k)}

----------------------------------------------------------------------------
(* Vocabulary of the claims about the SLE calculation *)

Extracted == pc \in {"extracted", "windowed", "error", "sles"}

\* the records of issue key k among the records of status st
RecordsOf(st, k) ==
    IF st \in DOMAIN transitionsByStatusId
    THEN {n \in 1..Len(transitionsByStatusId[st]) : transitionsByStatusId[st][n].issueKey = k}
    ELSE {}

\* the positions of a list whose record is among the records of another list
SeqToSet(seq) == {seq[n] : n \in 1..Len(seq)}

(* C9: extractStatusTransitions emits one record, keyed by the status just   *)
(* exited, for every status-change event of a historical issue's changelog,  *)
(* the issue's first transition included.                                    *)
C9_EveryExitRecorded ==
    Extracted =>
        \A i \in 1..Len(sleIssues) : \A st \in StatusIds :
            LET c == Chron(sleIssues[i]) IN
            Cardinality(RecordsOf(st, sleIssues[i].key)) =
                Cardinality({j \in 1..Len(c) : IsStatusEvent(c[j]) /\ FromIdOf(c[j]) = st})

(* C10: for a window "<N>d" and reference date R the records that feed a     *)
(* status's percentiles are exactly the records of that status with          *)
(* exitDate >= R - N days.                                                   *)
C10_DaysWindowCutoff ==
    pc = "sles" /\ DaysMatch(sleWindow) =>
        LET N == parseInt(SubSeq(sleWindow, 1, Len(sleWindow) - 1))
            cutoff == DateOfDay((referenceDate \div DayLen) - N)
        IN  \A st \in DOMAIN transitionsByStatusId :
                filteredByStatusId[st] =
                    SelectSeq(transitionsByStatusId[st],
                              LAMBDA t : StrGeq(t.exitDate, cutoff))

(* C11: with a window of N days only transitions of the N days before the    *)
(* reference date feed the SLE: no retained record has an exitDate later     *)
(* than the reference date.                                                  *)
C11_NoRecordAfterReference ==
    pc = "sles" /\ DaysMatch(sleWindow) =>
        \A st \in DOMAIN filteredByStatusId :
            \A n \in 1..Len(filteredByStatusId[st]) :
                ~StrGreater(filteredByStatusId[st][n].exitDate,
                            DateOfDay(referenceDate \div DayLen))

(* C12: for a window given as integer N the records retained for a status    *)
(* are min(N, number of records of that status) of its records, and no       *)
(* discarded record has an exitDate later than a retained record's.          *)
C12_CountWindowMostRecent ==
    pc = "sles" /\ window.type = "count" =>
        \A st \in DOMAIN transitionsByStatusId :
            LET all == SeqToSet(transitionsByStatusId[st])
                kept == SeqToSet(filteredByStatusId[st])
            IN  /\ Len(filteredByStatusId[st]) =
                       Min(parseInt(sleWindow), Len(transitionsByStatusId[st]))
                /\ Cardinality(kept) = Len(filteredByStatusId[st])
                /\ kept \subseteq all
                /\ \A d \in all \ kept : \A r \in kept :
                       ~StrGreater(d.exitDate, r.exitDate)

\* a count window that discards a record older than the ones it keeps, the
\* newest record not being stored first
C12_Witness ==
    /\ pc = "sles"
    /\ window.type = "count"
    /\ \E st \in DOMAIN transitionsByStatusId :
          /\ Len(filteredByStatusId[st]) = window.count
          /\ Len(transitionsByStatusId[st]) > window.count
          /\ \E n \in 2..Len(transitionsByStatusId[st]) :
                /\ StrGreater(transitionsByStatusId[st][n].exitDate,
                              transitionsByStatusId[st][1].exitDate)
                /\ transitionsByStatusId[st][n] \in SeqToSet(filteredByStatusId[st])
                /\ transitionsByStatusId[st][1] \notin SeqToSet(filteredByStatusId[st])

----------------------------------------------------------------------------
(* Vocabulary of the claims about parseWindow *)

Parsed == pc \in {"windowed", "error"}

DigitChars == {"0", "1", "2", "3", "4", "5", "6", "7", "8", "9"}

\* a bare integer: one or more digits and nothing else
IsNumeral(str) == Len(str) >= 1 /\ \A i \in 1..Len(str) : str[i] \in DigitChars

\* "<N>d", in either case of the letter
IsDaysString(str) ==
    /\ Len(str) >= 2
    /\ str[Len(str)] \in {"d", "D"}
    /\ IsNumeral(SubSeq(str, 1, Len(str) - 1))

\* the digits of a string written YYYY-MM-DD or YYYYMMDD, <<>> for any other
DigitsOfDate(str) ==
    IF Len(str) = 8 /\ IsNumeral(str) THEN str
    ELSE IF /\ Len(str) = 10
            /\ str[5] = "-" /\ str[8] = "-"
            /\ IsNumeral(SubSeq(str, 1, 4) \o SubSeq(str, 6, 7) \o SubSeq(str, 9, 10))
         THEN SubSeq(str, 1, 4) \o SubSeq(str, 6, 7) \o SubSeq(str, 9, 10)
         ELSE <<>>

DateWritten(str) ==
    LET d == DigitsOfDate(str) IN
    <<parseInt(SubSeq(d, 1, 4)), parseInt(SubSeq(d, 5, 6)), parseInt(SubSeq(d, 7, 8))>>

\* an ISO date: written YYYY-MM-DD or YYYYMMDD, with a month and a day that exist
IsIsoDateString(str) ==
    /\ DigitsOfDate(str) # <<>>
    /\ DateWritten(str)[2] \in 1..12
    /\ DateWritten(str)[3] \in 1..31

ByDate(date) == [type |-> "date", date |-> date, count |-> 0]

ByCount(n) == [type |-> "count", date |-> <<0, 0, 0>>, count |-> n]

NumberOfDays(str) == parseInt(SubSeq(str, 1, Len(str) - 1))

C14_OtherInputsRejected ==
    Parsed =>
        (~IsDaysString(sleWindow) /\ ~IsIsoDateString(sleWindow) /\ ~IsNumeral(sleWindow)
            => window = WindowError /\ pc = "error")

----------------------------------------------------------------------------
(* Vocabulary of the claims about percentiles *)

\* 100 times the linear interpolation at index (p / 100) * (n - 1) between
\* the floor and ceiling order statistics of the ascending sample S
InterpolationTimes100(S, p) ==
    LET index100 == p * (Len(S) - 1)
        lower == index100 \div 100
        frac100 == index100 % 100
        upper == IF frac100 = 0 THEN lower ELSE lower + 1
    IN  S[lower + 1] * (100 - frac100) + S[upper + 1] * frac100

\* a <= b on Numbers
NumLeq(a, b) ==
    \/ a[4] < b[4]
    \/ a[4] = b[4] /\ a[3] < b[3]
    \/ a[4] = b[4] /\ a[3] = b[3] /\ a[2] < b[2]
    \/ a[4] = b[4] /\ a[3] = b[3] /\ a[2] = b[2] /\ a[1] <= b[1]

\* a and b differ by less than 2^-40
NumClose(a, b) ==
    LET diff == IF NumLeq(a, b) THEN ExactDiff(b, a) ELSE ExactDiff(a, b)
    IN  diff[4] = 0 /\ diff[3] = 0

\* v equals the value x100 / 100: exactly when that value is a double, to
\* within rounding when it is not
EqualsHundredths(v, x100) ==
    LET nearest == NumDivide(x100, 100) IN
    IF ExactTimes(nearest, 100) = NumOf(x100) THEN v = nearest ELSE NumClose(v, nearest)

(* C15: calculatePercentile over a non-empty ascending sample S and p in     *)
(* 0..100 equals the linear interpolation at index (p/100)*(n-1) between the *)
(* floor and ceiling order statistics; percentile([1,2,3,4],50) is 2.5,      *)
(* percentile(S,0) is S[0], percentile(S,100) is the last element and a      *)
(* single-element sample returns its element for every p.                    *)
C15_LinearInterpolation ==
    pc = "percentile" /\ Len(pctSample) >= 1 =>
        /\ EqualsHundredths(pctResult, InterpolationTimes100(pctSample, pctRank))
        /\ pctSample = <<1, 2, 3, 4>> /\ pctRank = 50 => ExactTimes(pctResult, 2) = NumOf(5)
        /\ pctRank = 0 => pctResult = NumOf(pctSample[1])
        /\ pctRank = 100 => pctResult = NumOf(pctSample[Len(pctSample)])
        /\ Len(pctSample) = 1 => pctResult = NumOf(pctSample[1])

(* C16: for every status of the SLE result and every percentile list the     *)
(* engine accepts, lists in increasing order among them, the thresholds      *)
(* stored for the status are non-decreasing.                                 *)
C16_ThresholdsNonDecreasing ==
    pc = "sles" /\ (\A i \in 1..(Len(percentiles) - 1) : percentiles[i] <= percentiles[i + 1]) =>
        \A st \in DOMAIN slesByStatusId :
            \A i \in 1..(Len(slesByStatusId[st]) - 1) :
                slesByStatusId[st][i] <= slesByStatusId[st][i + 1]

----------------------------------------------------------------------------
(* Vocabulary of the claims about buildOutput *)

Output == pc = "output"

LiveNames == {liveIssues[i].status : i \in 1..Len(liveIssues)}

OrderNames ==
    IF HasOrder(columnsOrder) THEN {trim(columnsOrder[i]) : i \in 1..Len(columnsOrder)}
    ELSE {}

\* the status ids a column name resolves to: the id of a live issue in that
\* status, else the id the status metadata gives the name
ResolvedIds(name) ==
    IF name \in LiveNames
    THEN {liveIssues[MinOf({i \in 1..Len(liveIssues) : liveIssues[i].status = name})].statusId}
    ELSE {statuses[i].id : i \in {j \in 1..Len(statuses) : statuses[j].name = name}}

\* the historical sample of a status is empty after windowing
EmptySample(id) ==
    id \notin DOMAIN filteredByStatusId \/ Len(filteredByStatusId[id]) = 0

\* the sle a column of that name is to carry
ExpectedSle(name) ==
    IF \E id \in ResolvedIds(name) : id \in DOMAIN slesByStatusId
    THEN Some(slesByStatusId[CHOOSE id \in ResolvedIds(name) : id \in DOMAIN slesByStatusId])
    ELSE Null

ColumnOf(name) == CHOOSE i \in 1..Len(columns) : columns[i].name = name

(* C17: a status whose historical sample is empty after windowing is absent  *)
(* from the SLE result, every column of such a status, live or placeholder,  *)
(* carries sle = null, and no column carries an all-zero threshold array.    *)
C17_EmptySampleOmitted ==
    Output =>
        /\ \A id \in StatusIds : EmptySample(id) => id \notin DOMAIN slesByStatusId
        /\ \A i \in 1..Len(columns) :
               /\ (\A id \in ResolvedIds(columns[i].name) : EmptySample(id))
                      => columns[i].sle = Null
               /\ columns[i].sle # Null =>
                      \E n \in 1..Len(columns[i].sle[1]) : columns[i].sle[1][n] # 0

\* status 3 has a record that the window drops; a live column and a
\* placeholder column are among the columns of statuses with an empty sample
C17_Witness ==
    /\ Output
    /\ "3" \in DOMAIN transitionsByStatusId /\ "3" \notin DOMAIN slesByStatusId
    /\ \E i, j \in 1..Len(columns) :
          /\ columns[i].name = "Review" /\ columns[i].sle = Null
          /\ (Len(columns[i].items) = 0) # (Len(columns[j].items) = 0)
          /\ columns[j].sle # Null

(* C18: with an explicit ordering buildOutput yields exactly one column per  *)
(* name of the ordering or of a live status; a name of the ordering without  *)
(* live issues gets a column with no items whose sle is the SLE result of    *)
(* the status id the name resolves to, or null when it resolves to none or   *)
(* no result exists; live {Doing: 3} with order Backlog, Doing, Done gives   *)
(* exactly 3 columns.                                                        *)
C18_OneColumnPerName ==
    Output /\ HasOrder(columnsOrder) =>
        /\ {columns[i].name : i \in 1..Len(columns)} = OrderNames \cup LiveNames
        /\ Len(columns) = Cardinality(OrderNames \cup LiveNames)
        /\ \A name \in OrderNames \ LiveNames :
               /\ columns[ColumnOf(name)].items = <<>>
               /\ columns[ColumnOf(name)].sle = ExpectedSle(name)
        /\ \A name \in LiveNames :
               Len(columns[ColumnOf(name)].items) =
                   Cardinality({i \in 1..Len(liveIssues) : liveIssues[i].status = name})
        /\ (LiveNames = {"Review"} /\ columnsOrder = <<"To Do", "Review", "Done">>)
               => Len(columns) = 3

\* three live issues in Review, order To Do, Review, Done: the placeholder of
\* To Do carries the SLE of status 1, the one of Done resolves to no id
C18_Witness ==
    /\ Output
    /\ Len(liveIssues) = 3 /\ LiveNames = {"Review"}
    /\ columnsOrder = <<"To Do", "Review", "Done">>
    /\ Len(columns) = 3
    /\ columns[1].name = "To Do" /\ columns[1].items = <<>> /\ columns[1].sle # Null
    /\ columns[2].name = "Review" /\ Len(columns[2].items) = 3
    /\ columns[3].name = "Done" /\ columns[3].items = <<>> /\ columns[3].sle = Null

\* the positions of `name` in the trimmed ordering
PlacesOf(name) == {i \in 1..Len(columnsOrder) : trim(columnsOrder[i]) = name}

\* the live issue with which a status name is first met
FirstSeen(name) == MinOf({i \in 1..Len(liveIssues) : liveIssues[i].status = name})

(* C19: with an explicit ordering the columns named in the list appear in    *)
(* the list's order, every column the list does not name comes after all     *)
(* named ones, those in the order their statuses were first met, and the     *)
(* order fields are 1..n in output sequence.                                 *)
C19_ColumnsInListOrder ==
    Output /\ HasOrder(columnsOrder) =>
        \A i, j \in 1..Len(columns) :
            LET a == columns[i].name
                b == columns[j].name
            IN  /\ columns[i].order = i
                /\ (/\ a \in OrderNames /\ b \in OrderNames
                    /\ \A x \in PlacesOf(a) : \A y \in PlacesOf(b) : x < y) => i < j
                /\ a \in OrderNames /\ b \notin OrderNames => i < j
                /\ (/\ a \notin OrderNames /\ b \notin OrderNames
                    /\ FirstSeen(a) < FirstSeen(b)) => i < j

\* two live statuses the list does not name, first met in the order Review,
\* In Progress, behind a placeholder and a live column that it names
C19_Witness ==
    /\ Output
    /\ columnsOrder = <<"Done", "To Do">>
    /\ Len(columns) = 4
    /\ columns[1].name = "Done" /\ columns[2].name = "To Do"
    /\ columns[3].name = "Review" /\ columns[4].name = "In Progress"
    /\ Len(columns[2].items) = 1
    /\ \A i \in 1..4 : columns[i].order = i

----------------------------------------------------------------------------
(* Vocabulary of the claims about getAllIssues *)

InFlight == {j \in 1..Len(activeIssues) : fetchState[j] \in {"sleeping", "requesting"}}

Started(j) == fetchState[j] # "pending"

Settled(j) == fetchState[j] \in {"ok", "failed"}

\* the number of the batch of ten that the j-th issue belongs to
BatchOf(j) == (j - 1) \div 10

(* C20: during the enrichment at most 10 fetches are in flight at any time,  *)
(* and no fetch of batch k+1 is started before every fetch of batch k has    *)
(* settled, succeeded or failed.                                             *)
C20_BoundedBatches ==
    /\ Cardinality(InFlight) <= 10
    /\ \A j, k \in 1..Len(activeIssues) :
           BatchOf(j) < BatchOf(k) /\ Started(k) => Settled(j)

\* the second batch is in flight after a first batch of ten in which a fetch
\* failed
C20_Witness ==
    /\ Len(activeIssues) > 10
    /\ fetchState[11] \in {"sleeping", "requesting"}
    /\ \E j \in 1..10 : fetchState[j] = "failed"
    /\ \E j \in 1..10 : fetchState[j] = "ok"

Dispatched == {j \in 1..Len(dispatchedAt) : dispatchedAt[j] # Null}

Distance(a, b) == IF a >= b THEN a - b ELSE b - a

(* C21: between the dispatch of any two HTTP requests made through          *)
(* JiraClient.request, two enrichment requests of the same batch included,   *)
(* at least RATE_LIMIT_DELAY (100 ms) elapses.                               *)
C21_RequestsSpaced ==
    \A j, k \in Dispatched :
        j # k => Distance(dispatchedAt[j][1], dispatchedAt[k][1]) >= RATE_LIMIT_DELAY

\* the state of the settled fetch of the issue at position i of allIssues
FetchOf(i) ==
    IF \E j \in 1..Len(activeIssues) : activeIssues[j] = i
    THEN fetchState[CHOOSE j \in 1..Len(activeIssues) : activeIssues[j] = i]
    ELSE "none"

FailureCaught == \E j \in 1..Len(fetchState) : fetchState[j] = "failed"

\* getAllIssues has resolved: every fetch has settled, an issue whose fetch
\* failed or that was not fetched has the changelog of the search, every
\* other one the complete changelog, and the issues are in response order
ResolvedIntact ==
    /\ pc = "fetched"
    /\ \A j \in 1..Len(fetchState) : Settled(j)
    /\ activeIssues = ActiveOf(allIssues)
    /\ \A i \in 1..Len(allIssues) :
           /\ allIssues[i].key = i
           /\ allIssues[i].changelog = IF FetchOf(i) = "ok" THEN "full" ELSE "search"

(* C22: a failed enrichment fetch never aborts the run: the failure is       *)
(* caught, the issue keeps the changelog it had, every other issue of the    *)
(* batch and of the later batches is still fetched, and getAllIssues         *)
(* resolves, after every fetch has settled, with all issues in their         *)
(* original order.                                                           *)
C22_FailureTolerated == FailureCaught ~> ResolvedIntact

\* getAllIssues has resolved although a fetch of the first batch failed; the
\* fetch of the second batch succeeded
C22_Witness ==
    /\ ResolvedIntact
    /\ Len(activeIssues) > batchSize
    /\ \E j \in 1..batchSize : fetchState[j] = "failed"
    /\ fetchState[batchSize + 1] = "ok"

\* a --sle-window value of none of the three forms
MalformedWindow == ~IsDaysString(sleWindow) /\ ~IsIsoDateString(sleWindow) /\ ~IsNumeral(sleWindow)

(* C23: a malformed window string is fatal: on every run of main whose       *)
(* --sle-window value is malformed, with or without --sle-jql and whether or *)
(* not the historical query returns issues, the run ends in the error state  *)
(* and writes no chart output.                                               *)
C23_MalformedWindowFatal == MalformedWindow => pc # "output"

\* a piece of --percentiles that denotes a number between 0 and 100
IsPercentile(piece) ==
    /\ IsNumeral(trimPiece(piece))
    /\ DigitsValue(trimPiece(piece)) <= 100

BadPercentileList == \E i \in 1..Len(percentilesArg) : ~IsPercentile(percentilesArg[i])

(* C24: a percentile list with an entry that is no number, or with a value    *)
(* outside 0..100, aborts the request: it is never carried into               *)
(* calculateSLEsForStatuses.                                                  *)
C24_BadPercentilesRejected == BadPercentileList => pc # "sles"

\* the status ids that occur in the changelogs of the historical issues
HistoricalStatusIds ==
    UNION {{x \in StatusIds :
              \E h \in 1..Len(sleIssues[i].changelog[1].histories) :
                  LET item == sleIssues[i].changelog[1].histories[h].items[1] IN
                  item.field = "status" /\ x \in {item.from, item.to}} :
           i \in {k \in 1..Len(sleIssues) : sleIssues[k].changelog # Null}}

(* C27: the shared status-category map covers the historical issue set:       *)
(* every status id that occurs in a historical issue's changelog is among     *)
(* the ids sent for category resolution.                                      *)
C27_HistoricalStatusesResolved ==
    pc \in {"fetched", "mapped", "extracted", "windowed", "sles"} =>
        \A x \in HistoricalStatusIds : \E i \in 1..Len(statusIds) : statusIds[i] = x

(* C25: every chart-generation entry point (the /generate-chart handler of   *)
(* the CLI's server mode, /api/chart-data of server-prod.js, the PHP         *)
(* wrapper) applies a request's sleWindow = N as a look-back of N days: the  *)
(* same ByDate window that the CLI computes for "Nd".                        *)
C25_EntryPointsLookBackDays ==
    pc \in {"windowed", "sles"} /\ entryPoint \in EntryPoints =>
        window = parseWindow(Append(sleWindow, "d"), referenceDate, hostZone)

\* the changelog is complete and consistent: every status event starts from
\* the status the previous one led to (the first from the status of creation),
\* the last one leads to the current status, and no event precedes the creation
ConsistentChangelog(iss) ==
    LET c == Chron(iss)
        events == SelectSeq(c, IsStatusEvent)
    IN  /\ \A i \in 1..Len(c) : c[i].created >= iss.created
        /\ \A i \in 1..(Len(c) - 1) : c[i].created <= c[i + 1].created
        /\ \A i \in 2..Len(events) : FromIdOf(events[i]) = ToOf(events[i - 1])
        /\ Len(events) > 0 => ToOf(events[Len(events)]) = iss.status.id

(* C26: for a complete, consistent changelog (each event's from is the       *)
(* previous event's to, the last to is the current status, no event before   *)
(* the creation) that is delivered newest first, age_in_current_state <= age *)
(* for every reference date.                                                 *)
C26_StateAgeWithinAge ==
    Transformed /\ issue.delivery = "newest-first" /\ ConsistentChangelog(issue) =>
        ageMetrics.age_in_current_state <= ageMetrics.age

\* an issue that left Backlog on one day and entered its current status on a
\* later day: it is older than its stay in the current status
C26_Witness ==
    /\ Transformed /\ issue.delivery = "newest-first" /\ ConsistentChangelog(issue)
    /\ firstStableExit # Null
    /\ mostRecentTransition # Null
    /\ ageMetrics.age_in_current_state < ageMetrics.age

\* the historical issues in every order in which a response can list them
Reorderings(issues) ==
    {[i \in 1..Len(issues) |-> issues[f[i]]] :
        f \in {g \in [1..Len(issues) -> 1..Len(issues)] :
                  \A a, b \in 1..Len(issues) : a # b => g[a] # g[b]}}

(* C28: the SLE thresholds do not depend on the order of the historical      *)
(* issues, ByCount windows included, when several records share the same     *)
(* exit date.                                                                *)
C28_OrderIndependentSles ==
    pc = "sles" =>
        \A reordered \in Reorderings(sleIssues) :
            calculateSLEsForStatuses(
                extractStatusTransitions(reordered, statusCategoryMap, hostZone),
                window, percentiles) = slesByStatusId

(* C29: the paging loop of getAllIssues terminates for every sequence of     *)
(* search responses, a response with zero issues while fewer than total      *)
(* were collected included, and on termination the number of issues          *)
(* collected is at least the total that the first response reported.         *)
C29_PagingTerminates == <>(pc = "paged" /\ Len(allIssues) >= total[1])

\* the places <<column, position>> at which the issue with key k is an item
ItemPlaces(k) ==
    {p \in UNION {{<<c, j>> : j \in 1..Len(columns[c].items)} : c \in 1..Len(columns)} :
        columns[p[1]].items[p[2]].key = k}

(* C30: buildOutput neither drops nor duplicates live issues: every input    *)
(* issue is an item of exactly one column, whose name is the issue's current *)
(* status name; the column names are pairwise distinct; every column's       *)
(* top_text WIP count is the number of its items; with or without an         *)
(* explicit ordering.                                                        *)
C30_IssuesPartitioned ==
    Output =>
        /\ \A i \in 1..Len(liveIssues) :
               /\ Cardinality(ItemPlaces(liveIssues[i].key)) = 1
               /\ \A p \in ItemPlaces(liveIssues[i].key) :
                      columns[p[1]].name = liveIssues[i].status
        /\ \A c \in 1..Len(columns) :
               /\ columns[c].top_text = Len(columns[c].items)
               /\ \A j \in 1..Len(columns[c].items) :
                      \E i \in 1..Len(liveIssues) : liveIssues[i].key = columns[c].items[j].key
               /\ \A d \in 1..Len(columns) : c # d => columns[c].name # columns[d].name

\* three live issues in two statuses under an ordering that names one of
\* them and a status without live issues
C30_Witness ==
    /\ Output
    /\ HasOrder(columnsOrder)
    /\ Len(liveIssues) = 3
    /\ Cardinality(LiveNames) = 2
    /\ OrderNames \cap LiveNames # {}
    /\ OrderNames \ LiveNames # {}
    /\ LiveNames \ OrderNames # {}
    /\ \E c \in 1..Len(columns) : Len(columns[c].items) = 2

====
